---- MODULE Spec2Model ----
(***************************************************************************)
(* A model of nanocode-cpp's chat-completion client:                       *)
(*   llm::send_request (src/src/llm_client.cpp): buffered body handling    *)
(*   and the streaming decoder for the Anthropic and OpenAI wire formats;  *)
(*   Agent::normalize_openai_response and the block loop of                *)
(*   Agent::run_agentic_loop (src/src/agent.cpp).                          *)
(*                                                                         *)
(* A std::string is a sequence of atoms (TLA+ strings); an atom is one     *)
(* byte, or an indivisible run of bytes (an identifier, half of the text   *)
(* of a frame).  A boost::json::value is a tagged record:                  *)
(*   [str |-> text], [num |-> lexeme], [arr |-> <<values>>],               *)
(*   [obj |-> <<[key |-> text, val |-> value], ...>>] in insertion order.  *)
(***************************************************************************)
EXTENDS FiniteSets, Integers, Sequences, TLC

VARIABLES
  format,                 \* "anthropic" | "openai": LLMConfig.is_*_format
  streaming,              \* TRUE iff a ChunkCallback was supplied
  wire,                   \* response body bytes the transport has not yet delivered
  sent,                   \* the lines of the body, as the upstream produced them
  split,                  \* TRUE once a read has ended in the middle of a line
  accumulated_body,       \* send_request locals of the streaming branch
  final_text,
  anthropic_content,
  openai_tool_calls,
  current_anthropic_tool,
  current_openai_tool,
  current_tool_args,
  emitted,                \* the arguments on_chunk was called with, in order
  pc,                     \* position of the request
  result,                 \* the std::expected returned by send_request
  outcome,                \* what the iteration of run_agentic_loop made of it
  status,                 \* parser.get().result_int() of the response header
  err_body,               \* send_request local of the status check
  steps,                  \* the network operations send_request has begun, in order
  messages_,              \* Agent::messages_
  agent,                  \* position of Agent::run: "prompt" | "request" | "crashed"
  turn,                   \* what each request of the current turn ended in
  current_model_,         \* Agent::current_model_
  payload,                \* the last payload built
  roundtrip,              \* per message of the payload, what normalize_openai_response
                          \* makes of a response that carries it
  store,                  \* the save file of /save and /load, and what was last said
  request,                \* the http::request send_request has written
  spinner,                \* the progress indicator of run_agentic_loop
  trailing,               \* the bytes the upstream sends after the last newline
  indicators,             \* the indicator tasks of earlier iterations, each with its flag
  edit                    \* a call of tools::execute_edit: its locals, the file, the value returned

\* the variables of the network exchange, and those of the agent
transportVars == <<status, err_body, steps>>
agentVars == <<messages_, agent, turn, current_model_, payload, roundtrip>>
sessionVars == <<store, request, spinner, trailing, indicators, edit>>

vars == <<format, streaming, wire, sent, split, accumulated_body, final_text,
          anthropic_content, openai_tool_calls, current_anthropic_tool,
          current_openai_tool, current_tool_args, emitted, pc, result, outcome,
          status, err_body, steps, messages_, agent, turn, current_model_, payload,
          roundtrip, store, request, spinner, trailing, indicators, edit>>

-----------------------------------------------------------------------------
(* Bounds of the model *)

\* longest buffered body, in atoms
MaxBodyLen == 5
\* most lines of a streamed body when every read delivers one whole line
MaxLines == 4
\* most lines of a streamed body when reads split it at arbitrary bytes
MaxChunkLines == 2
\* most lines of a streamed body, and longest buffered body, of a request
\* followed from its first network operation
MaxHttpLines == 1
MaxHttpBody == 3
\* most messages of a conversation handed to the payload builders
MaxMessages == 2
\* a conversation of this many messages is not continued
MaxConversation == 6

-----------------------------------------------------------------------------
(* boost::json values *)

NL == "\n"
CR == "\r"
QUOTE == "\""
BACKSLASH == "\\"
\* the two bytes an escaped quote, or backslash, takes in a JSON text
ESCAPED_QUOTE == "\\\""
ESCAPED_BACKSLASH == "\\\\"

Str(s) == [str |-> s]
Num(d) == [num |-> d]
Bool(b) == [bool |-> b]
Arr(a) == [arr |-> a]
Obj(m) == [obj |-> m]
EmptyObject == Obj(<<>>)

is_number(j) == DOMAIN j = {"num"}
is_bool(j) == DOMAIN j = {"bool"}
is_string(j) == DOMAIN j = {"str"}
is_array(j) == DOMAIN j = {"arr"}
is_object(j) == DOMAIN j = {"obj"}

\* object::contains
contains(o, k) == \E i \in 1..Len(o.obj) : o.obj[i].key = <<k>>

\* object::at, for a key the object contains
at(o, k) == o.obj[CHOOSE i \in 1..Len(o.obj) : o.obj[i].key = <<k>>].val

\* object::operator[] used as an assignment: replace in place, or append
SetMember(o, k, v) ==
  IF \E i \in 1..Len(o.obj) : o.obj[i].key = k
  THEN Obj([i \in 1..Len(o.obj) |->
              IF o.obj[i].key = k THEN [key |-> k, val |-> v] ELSE o.obj[i]])
  ELSE Obj(Append(o.obj, [key |-> k, val |-> v]))

\* one {"k", v} pair of an initializer list; S is a one-atom string value
Member(k, v) == [key |-> <<k>>, val |-> v]
S(a) == Str(<<a>>)

Rest(t, n) == SubSeq(t, n + 1, Len(t))

Digits == {"0", "1", "2", "3", "4", "5", "6", "7", "8", "9"}

ParseFail == [ok |-> FALSE]

\* a byte that belongs to no UTF-8 sequence: serialize copies it as it is, and
\* parse, whose options do not allow invalid UTF-8, rejects the string
INVALID_UTF8 == "(0xff)"

RECURSIVE ScanString(_, _)
RECURSIVE ParseValue(_)
RECURSIVE ParseMembers(_, _)
RECURSIVE ParseItems(_, _)

\* the characters of a string literal up to its closing quote
ScanString(t, acc) ==
  IF t = <<>> THEN ParseFail
  ELSE IF Head(t) = INVALID_UTF8 THEN ParseFail
  ELSE IF Head(t) = QUOTE THEN [ok |-> TRUE, val |-> acc, rest |-> Tail(t)]
  ELSE IF Head(t) = ESCAPED_QUOTE THEN ScanString(Tail(t), Append(acc, QUOTE))
  ELSE IF Head(t) = ESCAPED_BACKSLASH THEN ScanString(Tail(t), Append(acc, BACKSLASH))
  ELSE IF Head(t) = BACKSLASH THEN ParseFail
  ELSE ScanString(Tail(t), Append(acc, Head(t)))

\* one JSON value at the head of t
ParseValue(t) ==
  IF t = <<>> THEN ParseFail
  ELSE IF Head(t) = "{}" THEN [ok |-> TRUE, val |-> EmptyObject, rest |-> Tail(t)]
  ELSE IF Head(t) = "{" THEN
    IF Len(t) >= 2 /\ t[2] = "}"
    THEN [ok |-> TRUE, val |-> EmptyObject, rest |-> Rest(t, 2)]
    ELSE ParseMembers(Tail(t), EmptyObject)
  ELSE IF Head(t) = "[" THEN
    IF Len(t) >= 2 /\ t[2] = "]"
    THEN [ok |-> TRUE, val |-> Arr(<<>>), rest |-> Rest(t, 2)]
    ELSE ParseItems(Tail(t), <<>>)
  ELSE IF Head(t) = QUOTE THEN
    LET s == ScanString(Tail(t), <<>>)
    IN  IF s.ok THEN [ok |-> TRUE, val |-> Str(s.val), rest |-> s.rest] ELSE ParseFail
  ELSE IF Head(t) \in Digits THEN [ok |-> TRUE, val |-> Num(Head(t)), rest |-> Tail(t)]
  ELSE ParseFail

\* the members of an object after its opening brace
ParseMembers(t, acc) ==
  IF t = <<>> \/ Head(t) # QUOTE THEN ParseFail
  ELSE LET k == ScanString(Tail(t), <<>>)
       IN  IF ~k.ok \/ k.rest = <<>> \/ Head(k.rest) # ":" THEN ParseFail
           ELSE LET v == ParseValue(Tail(k.rest))
                IN  IF ~v.ok \/ v.rest = <<>> THEN ParseFail
                    ELSE IF Head(v.rest) = "}"
                    THEN [ok |-> TRUE, val |-> SetMember(acc, k.val, v.val),
                          rest |-> Tail(v.rest)]
                    ELSE IF Head(v.rest) = ","
                    THEN ParseMembers(Tail(v.rest), SetMember(acc, k.val, v.val))
                    ELSE ParseFail

\* the items of an array after its opening bracket
ParseItems(t, acc) ==
  LET v == ParseValue(t)
  IN  IF ~v.ok \/ v.rest = <<>> THEN ParseFail
      ELSE IF Head(v.rest) = "]"
      THEN [ok |-> TRUE, val |-> Arr(Append(acc, v.val)), rest |-> Tail(v.rest)]
      ELSE IF Head(v.rest) = ","
      THEN ParseItems(Tail(v.rest), Append(acc, v.val))
      ELSE ParseFail

\* boost::json::parse of a text written out byte by byte: one value and
\* nothing after it
ParseText(text) ==
  LET r == ParseValue(text)
  IN  IF r.ok /\ r.rest = <<>> THEN [ok |-> TRUE, val |-> r.val] ELSE ParseFail

RECURSIVE Flatten(_)
\* the concatenation of a sequence of texts
Flatten(texts) == IF texts = <<>> THEN <<>> ELSE Head(texts) \o Flatten(Tail(texts))

RECURSIVE Join(_, _)
\* the texts, with sep between them
Join(texts, sep) ==
  IF texts = <<>> THEN <<>>
  ELSE IF Len(texts) = 1 THEN texts[1]
  ELSE texts[1] \o <<sep>> \o Join(Tail(texts), sep)

\* SerializeString with a fault: nothing is escaped
SerializeStringRaw(text) == <<QUOTE>> \o text \o <<QUOTE>>

\* a string literal: quotes and backslashes are escaped
SerializeString(text) ==
  <<QUOTE>>
  \o [i \in 1..Len(text) |->
        IF text[i] = QUOTE THEN ESCAPED_QUOTE
        ELSE IF text[i] = BACKSLASH THEN ESCAPED_BACKSLASH
        ELSE text[i]]
  \o <<QUOTE>>

RECURSIVE Serialize(_)
\* boost::json::serialize: no white space, members in insertion order
Serialize(j) ==
  IF is_string(j) THEN SerializeString(j.str)
  ELSE IF is_number(j) THEN <<j.num>>
  ELSE IF is_bool(j) THEN <<IF j.bool THEN "true" ELSE "false">>
  ELSE IF is_array(j)
  THEN <<"[">> \o Join([i \in 1..Len(j.arr) |-> Serialize(j.arr[i])], ",") \o <<"]">>
  ELSE <<"{">>
       \o Join([i \in 1..Len(j.obj) |->
                  SerializeString(j.obj[i].key) \o <<":">> \o Serialize(j.obj[i].val)], ",")
       \o <<"}">>

-----------------------------------------------------------------------------
(* send_request, buffered branch *)

\* the bytes of the bodies tried; "{}" is an empty object written as one atom
BodyAtoms == {"{}", "[", "]", ",", "1"}

RECURSIVE Texts(_, _)
\* every text of at most n atoms over the alphabet
Texts(alphabet, n) ==
  IF n = 0 THEN {<<>>}
  ELSE LET shorter == Texts(alphabet, n - 1)
       IN  shorter \cup {Append(t, a) : t \in {s \in shorter : Len(s) = n - 1}, a \in alphabet}

Bodies == Texts(BodyAtoms, MaxBodyLen)

Unexpected(text) == [ok |-> FALSE, error |-> text]
Response(obj) == [ok |-> TRUE, raw_json |-> obj]

NoResult == [ok |-> FALSE, error |-> <<"(pending)">>]
NoOutcome == [kind |-> "none"]

\* BufferedResult with a fault: unwraps one-element arrays only
BufferedResultOneElement(body) ==
  LET p == ParseText(body)
  IN  IF ~p.ok
      THEN Unexpected(<<"JSON Parse Error: ", "parse_ec.message()", "\nResponse body:\n">> \o body)
      ELSE IF is_array(p.val) /\ Len(p.val.arr) = 1 /\ is_object(p.val.arr[1])
      THEN Response(p.val.arr[1])
      ELSE IF ~is_object(p.val)
      THEN Unexpected(<<"API Response is not a JSON object nor an object array.\nResponse body:\n">> \o body)
      ELSE Response(p.val)

\* what the buffered branch returns for a response body
BufferedResult(body) ==
  LET p == ParseText(body)
  IN  IF ~p.ok
      THEN Unexpected(<<"JSON Parse Error: ", "parse_ec.message()", "\nResponse body:\n">> \o body)
      ELSE IF is_array(p.val) /\ p.val.arr # <<>> /\ is_object(p.val.arr[1])
      THEN Response(p.val.arr[1])
      ELSE IF ~is_object(p.val)
      THEN Unexpected(<<"API Response is not a JSON object nor an object array.\nResponse body:\n">> \o body)
      ELSE Response(p.val)

-----------------------------------------------------------------------------
(* The frames the upstream sends, and their text on the wire *)

\* partial_json / function.arguments fragments: {"c":"l  and  s"}
FragA == <<"{", QUOTE, "c", QUOTE, ":", QUOTE, "l">>
FragB == <<"s", QUOTE, "}">>

AStart(type, id, name) ==
  Obj(<<Member("type", S("content_block_start")),
        Member("content_block",
               Obj(<<Member("type", S(type)), Member("id", S(id)), Member("name", S(name))>>))>>)
ATextDelta(text) ==
  Obj(<<Member("type", S("content_block_delta")),
        Member("delta", Obj(<<Member("type", S("text_delta")), Member("text", Str(text))>>))>>)
AJsonDelta(frag) ==
  Obj(<<Member("type", S("content_block_delta")),
        Member("delta", Obj(<<Member("type", S("input_json_delta")),
                              Member("partial_json", Str(frag))>>))>>)
AStop == Obj(<<Member("type", S("content_block_stop"))>>)
\* valid JSON, but a content_block_delta without its `delta` member
ANoDelta == Obj(<<Member("type", S("content_block_delta"))>>)

ODelta(delta) == Obj(<<Member("choices", Arr(<<Obj(<<Member("delta", delta)>>)>>))>>)
OContent(text) == ODelta(Obj(<<Member("content", Str(text))>>))
OToolCalls(tcs) == ODelta(Obj(<<Member("tool_calls", Arr(tcs))>>))
\* one entry of delta.tool_calls
OOpen(id, name) ==
  Obj(<<Member("id", S(id)), Member("function", Obj(<<Member("name", S(name))>>))>>)
OOpenArgs(id, name, frag) ==
  Obj(<<Member("id", S(id)),
        Member("function", Obj(<<Member("name", S(name)), Member("arguments", Str(frag))>>))>>)
OArgs(frag) == Obj(<<Member("function", Obj(<<Member("arguments", Str(frag))>>))>>)
\* valid JSON, but a tool-call start without its `function` member
ONoFunction == Obj(<<Member("id", S("t1"))>>)

\* an event type the decoder does not consume
AMessageStart == Obj(<<Member("type", S("message_start"))>>)

AnthropicFrames ==
  {AStart("tool_use", "t1", "bash"), AStart("tool_use", "t2", "read"),
   ATextDelta(<<"a">>), ATextDelta(<<"b">>),
   AJsonDelta(FragA), AJsonDelta(FragB), AStop}

OpenAIFrames ==
  {OContent(<<"a">>), OContent(<<"b">>),
   OToolCalls(<<OOpen("t1", "bash")>>), OToolCalls(<<OOpenArgs("t2", "read", FragA)>>),
   OToolCalls(<<OArgs(FragA)>>), OToolCalls(<<OArgs(FragB)>>),
   OToolCalls(<<OOpen("t1", "bash"), OOpen("t2", "read")>>)}

Frames(fmt) == IF fmt = "anthropic" THEN AnthropicFrames ELSE OpenAIFrames
\* valid JSON frames that the decoder cannot consume or does not consume
OtherFrames == {ANoDelta, OToolCalls(<<ONoFunction>>), AMessageStart}
\* the start of a call of glob, which the schema offers and the block loop
\* does not dispatch
UndispatchedFrames ==
  {AStart("tool_use", "t1", "glob"), OToolCalls(<<OOpen("t1", "glob")>>)}

AllFrames == AnthropicFrames \cup OpenAIFrames \cup OtherFrames \cup UndispatchedFrames

\* The text of a frame is two atoms: everything up to its last byte, and the
\* closing brace.
FrameHead == [j \in AllFrames |-> ToString(j)]
FrameText(j) == <<FrameHead[j], "}">>

DataPrefix == <<"d", "a", "t", "a", ":", " ">>
Done == <<"[", "D", "O", "N", "E", "]">>

\* a line of the body, without its newline: a `data: ` frame, or raw bytes
FrameLine(j) == [frame |-> j]
RawLine(bytes) == [raw |-> bytes]
IsFrameLine(l) == DOMAIN l = {"frame"}
LineText(l) == IF IsFrameLine(l) THEN DataPrefix \o FrameText(l.frame) ELSE l.raw

\* a `data: ` line whose payload is cut off and so is not valid JSON
MalformedLine == RawLine(DataPrefix \o <<"{">>)

\* the frame whose text begins with h
FrameOfHead ==
  [h \in {FrameHead[j] : j \in AllFrames} |-> CHOOSE j \in AllFrames : FrameHead[j] = h]

\* boost::json::parse: the frame a frame text was written from; any other
\* text is parsed byte by byte
ParseJson(text) ==
  IF Len(text) = 2 /\ text[2] = "}" /\ text[1] \in DOMAIN FrameOfHead
  THEN [ok |-> TRUE, val |-> FrameOfHead[text[1]]]
  ELSE ParseText(text)

-----------------------------------------------------------------------------
(* send_request, streaming branch: the decoder *)

\* The locals of the read loop.  thrown is the what() of an exception that
\* left the loop, <<>> if none did.
Locals ==
  [accumulated_body |-> accumulated_body, final_text |-> final_text,
   anthropic_content |-> anthropic_content, openai_tool_calls |-> openai_tool_calls,
   current_anthropic_tool |-> current_anthropic_tool,
   current_openai_tool |-> current_openai_tool,
   current_tool_args |-> current_tool_args, emitted |-> emitted, thrown |-> <<>>]

Throw(d, what) == [d EXCEPT !.thrown = <<what>>]

empty(o) == o.obj = <<>>

\* EmitText with a fault: the text is accumulated but on_chunk is not called
EmitTextNoCallback(d, text) == [d EXCEPT !.final_text = @ \o text]

\* final_text += text; on_chunk(text)
EmitText(d, text) ==
  [d EXCEPT !.final_text = @ \o text, !.emitted = Append(@, text)]

\* content_block_start
AnthropicStart(d, obj) ==
  IF ~contains(obj, "content_block") THEN Throw(d, "out of range")
  ELSE IF ~is_object(at(obj, "content_block")) THEN Throw(d, "not an object")
  ELSE LET block == at(obj, "content_block")
       IN  IF ~contains(block, "type") THEN Throw(d, "out of range")
           ELSE IF ~is_string(at(block, "type")) THEN Throw(d, "not a string")
           ELSE IF at(block, "type") = S("tool_use")
           THEN IF ~contains(block, "id") \/ ~contains(block, "name")
                THEN Throw(d, "out of range")
                ELSE [d EXCEPT
                        !.current_anthropic_tool =
                           Obj(<<Member("type", S("tool_use")),
                                 Member("id", at(block, "id")),
                                 Member("name", at(block, "name")),
                                 Member("input", EmptyObject)>>),
                        !.current_tool_args = <<>>]
           ELSE d

\* content_block_delta
AnthropicDelta(d, obj) ==
  IF ~contains(obj, "delta") THEN Throw(d, "out of range")
  ELSE IF ~is_object(at(obj, "delta")) THEN Throw(d, "not an object")
  ELSE LET delta == at(obj, "delta")
       IN  IF ~contains(delta, "type") THEN Throw(d, "out of range")
           ELSE IF ~is_string(at(delta, "type")) THEN Throw(d, "not a string")
           ELSE IF at(delta, "type") = S("text_delta")
           THEN IF ~contains(delta, "text") THEN Throw(d, "out of range")
                ELSE IF ~is_string(at(delta, "text")) THEN Throw(d, "not a string")
                ELSE EmitText(d, at(delta, "text").str)
           ELSE IF at(delta, "type") = S("input_json_delta")
           THEN IF ~contains(delta, "partial_json") THEN Throw(d, "out of range")
                ELSE IF ~is_string(at(delta, "partial_json")) THEN Throw(d, "not a string")
                ELSE [d EXCEPT !.current_tool_args = @ \o at(delta, "partial_json").str]
           ELSE d

\* AnthropicStop with a fault: the call stays open after it is appended
AnthropicStopStaysOpen(d) ==
  IF ~empty(d.current_anthropic_tool)
  THEN IF d.current_tool_args # <<>>
       THEN LET p == ParseJson(d.current_tool_args)
            IN  IF ~p.ok THEN Throw(d, "syntax error")
                ELSE [d EXCEPT
                        !.anthropic_content =
                           Append(@, SetMember(d.current_anthropic_tool, <<"input">>, p.val))]
       ELSE [d EXCEPT !.anthropic_content = Append(@, d.current_anthropic_tool)]
  ELSE d

\* content_block_stop
AnthropicStop(d) ==
  IF ~empty(d.current_anthropic_tool)
  THEN IF d.current_tool_args # <<>>
       THEN LET p == ParseJson(d.current_tool_args)
            IN  IF ~p.ok THEN Throw(d, "syntax error")
                ELSE [d EXCEPT
                        !.anthropic_content =
                           Append(@, SetMember(d.current_anthropic_tool, <<"input">>, p.val)),
                        !.current_anthropic_tool = EmptyObject]
       ELSE [d EXCEPT !.anthropic_content = Append(@, d.current_anthropic_tool),
                      !.current_anthropic_tool = EmptyObject]
  ELSE d

\* the Anthropic branch for one parsed frame
AnthropicEvent(d, obj) ==
  IF ~contains(obj, "type") THEN d
  ELSE IF ~is_string(at(obj, "type")) THEN Throw(d, "not a string")
  ELSE LET type == at(obj, "type")
       IN  IF type = S("content_block_start") THEN AnthropicStart(d, obj)
           ELSE IF type = S("content_block_delta") THEN AnthropicDelta(d, obj)
           ELSE IF type = S("content_block_stop") THEN AnthropicStop(d)
           ELSE d

\* FlushOpenAITool with a fault: the call is pushed without its arguments
FlushOpenAIToolNoArguments(d) ==
  [d EXCEPT !.openai_tool_calls = Append(@, d.current_openai_tool)]

\* current_openai_tool.at("function").as_object()["arguments"] = current_tool_args;
\* openai_tool_calls.push_back(current_openai_tool)
FlushOpenAITool(d) ==
  LET func == SetMember(at(d.current_openai_tool, "function"), <<"arguments">>,
                        Str(d.current_tool_args))
  IN  [d EXCEPT !.openai_tool_calls =
                   Append(@, SetMember(d.current_openai_tool, <<"function">>, func))]

\* OpenAIStart with a fault: the open call is replaced without being flushed
OpenAIStartNoFlush(d, tc) ==
  IF ~contains(tc, "function") THEN Throw(d, "out of range")
  ELSE IF ~is_object(at(tc, "function")) THEN Throw(d, "not an object")
  ELSE IF ~contains(at(tc, "function"), "name") THEN Throw(d, "out of range")
  ELSE [d EXCEPT
          !.current_openai_tool =
             Obj(<<Member("id", at(tc, "id")),
                   Member("type", S("function")),
                   Member("function",
                          Obj(<<Member("name", at(at(tc, "function"), "name")),
                                Member("arguments", Str(<<>>))>>))>>),
          !.current_tool_args = <<>>]

\* a tool-call delta that carries an id
OpenAIStart(d, tc) ==
  LET f == IF ~empty(d.current_openai_tool) THEN FlushOpenAITool(d) ELSE d
  IN  IF ~contains(tc, "function") THEN Throw(f, "out of range")
      ELSE IF ~is_object(at(tc, "function")) THEN Throw(f, "not an object")
      ELSE IF ~contains(at(tc, "function"), "name") THEN Throw(f, "out of range")
      ELSE [f EXCEPT
              !.current_openai_tool =
                 Obj(<<Member("id", at(tc, "id")),
                       Member("type", S("function")),
                       Member("function",
                              Obj(<<Member("name", at(at(tc, "function"), "name")),
                                    Member("arguments", Str(<<>>))>>))>>),
              !.current_tool_args = <<>>]

\* OpenAIArguments with a fault: a fragment is put in front of the buffer
OpenAIArgumentsPrepend(d, tc) ==
  IF contains(tc, "function")
  THEN IF ~is_object(at(tc, "function")) THEN Throw(d, "not an object")
       ELSE LET func == at(tc, "function")
            IN  IF contains(func, "arguments")
                THEN IF ~is_string(at(func, "arguments")) THEN Throw(d, "not a string")
                     ELSE [d EXCEPT !.current_tool_args = at(func, "arguments").str \o @]
                ELSE d
  ELSE d

\* the function.arguments of a tool-call delta
OpenAIArguments(d, tc) ==
  IF contains(tc, "function")
  THEN IF ~is_object(at(tc, "function")) THEN Throw(d, "not an object")
       ELSE LET func == at(tc, "function")
            IN  IF contains(func, "arguments")
                THEN IF ~is_string(at(func, "arguments")) THEN Throw(d, "not a string")
                     ELSE [d EXCEPT !.current_tool_args = @ \o at(func, "arguments").str]
                ELSE d
  ELSE d

\* one entry of delta.tool_calls
OpenAIToolCallDelta(d, tc_val) ==
  IF ~is_object(tc_val) THEN Throw(d, "not an object")
  ELSE LET s == IF contains(tc_val, "id") THEN OpenAIStart(d, tc_val) ELSE d
       IN  IF s.thrown # <<>> THEN s ELSE OpenAIArguments(s, tc_val)

RECURSIVE OpenAIToolCalls(_, _)
\* for (auto &tc_val : delta.at("tool_calls").as_array())
OpenAIToolCalls(d, tcs) ==
  IF tcs = <<>> \/ d.thrown # <<>> THEN d
  ELSE OpenAIToolCalls(OpenAIToolCallDelta(d, Head(tcs)), Tail(tcs))

\* the OpenAI branch for one parsed frame
OpenAIEvent(d, obj) ==
  IF contains(obj, "choices") /\ is_array(at(obj, "choices")) /\ at(obj, "choices").arr # <<>>
  THEN LET first == at(obj, "choices").arr[1]
       IN  IF ~is_object(first) THEN Throw(d, "not an object")
           ELSE IF contains(first, "delta") /\ is_object(at(first, "delta"))
           THEN LET delta == at(first, "delta")
                    t == IF contains(delta, "content") /\ is_string(at(delta, "content"))
                         THEN EmitText(d, at(delta, "content").str)
                         ELSE d
                IN  IF contains(delta, "tool_calls") /\ is_array(at(delta, "tool_calls"))
                    THEN OpenAIToolCalls(t, at(delta, "tool_calls").arr)
                    ELSE t
           ELSE d
  ELSE d

StartsWith(text, prefix) ==
  Len(text) >= Len(prefix) /\ SubSeq(text, 1, Len(prefix)) = prefix

\* ProcessLine with a fault: a payload that fails to parse ends the request
ProcessLineStrict(d, fmt, raw) ==
  LET line == IF raw # <<>> /\ raw[Len(raw)] = CR THEN SubSeq(raw, 1, Len(raw) - 1) ELSE raw
  IN  IF StartsWith(line, DataPrefix)
      THEN LET data_str == Rest(line, Len(DataPrefix))
           IN  IF data_str = Done THEN d
               ELSE LET parsed == ParseJson(data_str)
                    IN  IF ~parsed.ok THEN Throw(d, "syntax error")
                        ELSE IF ~is_object(parsed.val) THEN d
                        ELSE IF fmt = "anthropic" THEN AnthropicEvent(d, parsed.val)
                        ELSE IF fmt = "openai" THEN OpenAIEvent(d, parsed.val)
                        ELSE d
      ELSE d

\* ProcessLine with a fault: the [DONE] sentinel discards the accumulated text
ProcessLineDoneResets(d, fmt, raw) ==
  LET line == IF raw # <<>> /\ raw[Len(raw)] = CR THEN SubSeq(raw, 1, Len(raw) - 1) ELSE raw
  IN  IF StartsWith(line, DataPrefix)
      THEN LET data_str == Rest(line, Len(DataPrefix))
           IN  IF data_str = Done THEN [d EXCEPT !.final_text = <<>>]
               ELSE LET parsed == ParseJson(data_str)
                    IN  IF ~parsed.ok \/ ~is_object(parsed.val) THEN d
                        ELSE IF fmt = "anthropic" THEN AnthropicEvent(d, parsed.val)
                        ELSE IF fmt = "openai" THEN OpenAIEvent(d, parsed.val)
                        ELSE d
      ELSE d

\* the body of the inner loop for one line taken off accumulated_body
ProcessLine(d, fmt, raw) ==
  LET line == IF raw # <<>> /\ raw[Len(raw)] = CR THEN SubSeq(raw, 1, Len(raw) - 1) ELSE raw
  IN  IF StartsWith(line, DataPrefix)
      THEN LET data_str == Rest(line, Len(DataPrefix))
           IN  IF data_str = Done THEN d
               ELSE LET parsed == ParseJson(data_str)
                    IN  IF ~parsed.ok \/ ~is_object(parsed.val) THEN d
                        ELSE IF fmt = "anthropic" THEN AnthropicEvent(d, parsed.val)
                        ELSE IF fmt = "openai" THEN OpenAIEvent(d, parsed.val)
                        ELSE d
      ELSE d

\* accumulated_body.find('\n'): 0 for npos
FindNewline(text) ==
  IF \E i \in 1..Len(text) : text[i] = NL
  THEN CHOOSE i \in 1..Len(text) : text[i] = NL /\ \A k \in 1..(i - 1) : text[k] # NL
  ELSE 0

RECURSIVE DrainLines(_, _)
\* while ((pos = accumulated_body.find('\n')) != npos) { ... }
DrainLines(d, fmt) ==
  LET pos == FindNewline(d.accumulated_body)
  IN  IF d.thrown # <<>> \/ pos = 0 THEN d
      ELSE DrainLines(
             ProcessLine([d EXCEPT !.accumulated_body = Rest(@, pos)], fmt,
                         SubSeq(d.accumulated_body, 1, pos - 1)),
             fmt)

\* ProcessChunk with a fault: the bytes left after the last newline are dropped
ProcessChunkDropTail(d, fmt, chunk) ==
  [DrainLines([d EXCEPT !.accumulated_body = @ \o chunk], fmt) EXCEPT !.accumulated_body = <<>>]

\* one pass of the read loop: the bytes of one async_read_some
ProcessChunk(d, fmt, chunk) ==
  DrainLines([d EXCEPT !.accumulated_body = @ \o chunk], fmt)

\* array::insert(pos, {{"type", "text"}, {"text", final_text}}) is the
\* initializer-list overload: it inserts one element per braced item, and an
\* item that is a pair of strings becomes an array.
TextInsertion(text) == <<Arr(<<S("type"), S("text")>>), Arr(<<S("text"), Str(text)>>)>>

\* FinalResponse with a fault: an Anthropic tool block still open when the
\* stream ends is appended to the content
FinalResponseKeepsOpenBlock(d, fmt) ==
  LET f == IF fmt = "openai" /\ ~empty(d.current_openai_tool) THEN FlushOpenAITool(d) ELSE d
  IN  IF fmt = "anthropic"
      THEN Obj(<<Member("content",
                        Arr((IF f.final_text # <<>> THEN TextInsertion(f.final_text) ELSE <<>>)
                            \o f.anthropic_content
                            \o (IF empty(f.current_anthropic_tool) THEN <<>>
                                ELSE <<f.current_anthropic_tool>>)))>>)
      ELSE LET msg == Obj(<<Member("role", S("assistant"))>>
                          \o (IF f.final_text # <<>>
                              THEN <<Member("content", Str(f.final_text))>> ELSE <<>>)
                          \o (IF f.openai_tool_calls # <<>>
                              THEN <<Member("tool_calls", Arr(f.openai_tool_calls))>> ELSE <<>>))
           IN  Obj(<<Member("choices", Arr(<<Obj(<<Member("message", msg)>>)>>))>>)

\* FinalResponse with a fault: the bytes left in accumulated_body are decoded
\* as a last line
FinalResponseDecodesRest(d, fmt) ==
  LET r == ProcessLine(d, fmt, d.accumulated_body)
      f == IF fmt = "openai" /\ ~empty(r.current_openai_tool) THEN FlushOpenAITool(r) ELSE r
  IN  IF fmt = "anthropic"
      THEN Obj(<<Member("content",
                        Arr((IF f.final_text # <<>> THEN TextInsertion(f.final_text) ELSE <<>>)
                            \o f.anthropic_content))>>)
      ELSE LET msg == Obj(<<Member("role", S("assistant"))>>
                          \o (IF f.final_text # <<>>
                              THEN <<Member("content", Str(f.final_text))>> ELSE <<>>)
                          \o (IF f.openai_tool_calls # <<>>
                              THEN <<Member("tool_calls", Arr(f.openai_tool_calls))>> ELSE <<>>))
           IN  Obj(<<Member("choices", Arr(<<Obj(<<Member("message", msg)>>)>>))>>)

\* what the streaming branch returns once the parser is done
FinalResponse(d, fmt) ==
  LET f == IF fmt = "openai" /\ ~empty(d.current_openai_tool) THEN FlushOpenAITool(d) ELSE d
  IN  IF fmt = "anthropic"
      THEN Obj(<<Member("content",
                        Arr((IF f.final_text # <<>> THEN TextInsertion(f.final_text) ELSE <<>>)
                            \o f.anthropic_content))>>)
      ELSE LET msg == Obj(<<Member("role", S("assistant"))>>
                          \o (IF f.final_text # <<>>
                              THEN <<Member("content", Str(f.final_text))>> ELSE <<>>)
                          \o (IF f.openai_tool_calls # <<>>
                              THEN <<Member("tool_calls", Arr(f.openai_tool_calls))>> ELSE <<>>))
           IN  Obj(<<Member("choices", Arr(<<Obj(<<Member("message", msg)>>)>>))>>)

\* the catch block
Caught(what) == Unexpected(<<"HTTP Error: ">> \o what)

RECURSIVE DecodeLines(_, _, _)
\* every line decoded once, in order, up to the first exception
DecodeLines(d, fmt, lines) ==
  IF lines = <<>> \/ d.thrown # <<>> THEN d
  ELSE DecodeLines(ProcessLine(d, fmt, LineText(Head(lines))), fmt, Tail(lines))

\* what send_request returns when the stream ends, or the loop throws, in d
ReturnedFrom(d, fmt) ==
  IF d.thrown # <<>> THEN Caught(d.thrown) ELSE Response(FinalResponse(d, fmt))

-----------------------------------------------------------------------------
(* Agent::normalize_openai_response and the block loop of run_agentic_loop *)

\* a value or the what() of the exception that replaced it
Value(v) == [thrown |-> <<>>, val |-> v]
Thrown(what) == [thrown |-> <<what>>]

\* tool_use_block["input"] = boost::json::parse(arguments).as_object()
ToolUseBlock(tc, func, p) ==
  IF ~p.ok THEN Thrown("syntax error")
  ELSE IF ~is_object(p.val) THEN Thrown("not an object")
  ELSE Value(<<Obj(<<Member("type", S("tool_use")),
                     Member("id", at(tc, "id")),
                     Member("name", at(func, "name")),
                     Member("input", p.val)>>)>>)

\* one entry of message.tool_calls whose type is "function"
NormalizeFunction(tc, func) ==
  IF ~is_object(func) THEN Thrown("not an object")
  ELSE IF ~contains(tc, "id") \/ ~contains(func, "name") \/ ~contains(func, "arguments")
  THEN Thrown("out of range")
  ELSE IF ~is_string(at(func, "arguments")) THEN Thrown("not a string")
  ELSE ToolUseBlock(tc, func, ParseJson(at(func, "arguments").str))

\* one entry of message.tool_calls: <<>> if its type is not "function"
NormalizeToolCall(tc_val) ==
  IF ~is_object(tc_val) THEN Thrown("not an object")
  ELSE IF ~contains(tc_val, "type") THEN Thrown("out of range")
  ELSE IF ~is_string(at(tc_val, "type")) THEN Thrown("not a string")
  ELSE IF at(tc_val, "type") # S("function") THEN Value(<<>>)
  ELSE IF ~contains(tc_val, "function") THEN Thrown("out of range")
  ELSE NormalizeFunction(tc_val, at(tc_val, "function"))

\* content_blocks.push_back(tool_use_block), unless building the block threw
NormalizeNext(blocks, b) == IF b.thrown # <<>> THEN b ELSE Value(blocks \o b.val)

RECURSIVE NormalizeToolCalls(_, _)
\* for (const auto &tc_val : message.at("tool_calls").as_array()); blocks
\* carries the content_blocks pushed so far, or the exception
NormalizeToolCalls(tcs, blocks) ==
  IF tcs = <<>> \/ blocks.thrown # <<>> THEN blocks
  ELSE NormalizeToolCalls(Tail(tcs), NormalizeNext(blocks.val, NormalizeToolCall(Head(tcs))))

\* the text block of a message whose content is a string
NormalizeText(message) ==
  IF contains(message, "content") /\ is_string(at(message, "content"))
  THEN <<Obj(<<Member("type", S("text")), Member("text", at(message, "content"))>>)>>
  ELSE <<>>

\* anthropic_content["content"] = content_blocks
ContentOf(blocks) ==
  IF blocks.thrown # <<>> THEN blocks ELSE Value(Obj(<<Member("content", Arr(blocks.val))>>))

NormalizeMessage(message) ==
  IF ~is_object(message) THEN Thrown("not an object")
  ELSE IF contains(message, "tool_calls") /\ is_array(at(message, "tool_calls"))
  THEN ContentOf(NormalizeToolCalls(at(message, "tool_calls").arr, Value(NormalizeText(message))))
  ELSE ContentOf(Value(NormalizeText(message)))

normalize_openai_response(raw_resp) ==
  IF contains(raw_resp, "choices") /\ is_array(at(raw_resp, "choices"))
     /\ at(raw_resp, "choices").arr # <<>>
  THEN IF ~is_object(at(raw_resp, "choices").arr[1]) THEN Thrown("not an object")
       ELSE IF ~contains(at(raw_resp, "choices").arr[1], "message") THEN Thrown("out of range")
       ELSE NormalizeMessage(at(at(raw_resp, "choices").arr[1], "message"))
  ELSE ContentOf(Value(<<>>))

ToolNames == {"read", "write", "edit", "grep", "bash", "fetch_url", "execute_python"}

\* the text a tool call comes back with; the tools themselves are not modelled
ToolOutput(tool_name) ==
  IF Len(tool_name) = 1 /\ tool_name[1] \in ToolNames
  THEN <<"(output of ", tool_name[1], ")">>
  ELSE <<"error: unknown tool ">> \o tool_name

\* the tool_result pushed for a tool_use block
ToolResultOf(block) ==
  Obj(<<Member("type", S("tool_result")),
        Member("tool_use_id", at(block, "id")),
        Member("content", Str(ToolOutput(at(block, "name").str)))>>)

\* DispatchBlock with a fault: the result is put before those collected so far
DispatchBlockPrepend(block, tool_results) ==
  IF ~is_object(block) THEN Thrown("not an object")
  ELSE IF ~contains(block, "type") THEN Thrown("out of range")
  ELSE IF ~is_string(at(block, "type")) THEN Thrown("not a string")
  ELSE IF at(block, "type") = S("tool_use")
  THEN IF ~contains(block, "name") THEN Thrown("out of range")
       ELSE IF ~is_string(at(block, "name")) THEN Thrown("not a string")
       ELSE IF ~contains(block, "input") THEN Thrown("out of range")
       ELSE IF ~is_object(at(block, "input")) THEN Thrown("not an object")
       ELSE IF ~contains(block, "id") THEN Thrown("out of range")
       ELSE Value(<<ToolResultOf(block)>> \o tool_results)
  ELSE Value(tool_results)

\* one block of the loop: the tool_results after it, or the exception
DispatchBlock(block, tool_results) ==
  IF ~is_object(block) THEN Thrown("not an object")
  ELSE IF ~contains(block, "type") THEN Thrown("out of range")
  ELSE IF ~is_string(at(block, "type")) THEN Thrown("not a string")
  ELSE IF at(block, "type") = S("tool_use")
  THEN IF ~contains(block, "name") THEN Thrown("out of range")
       ELSE IF ~is_string(at(block, "name")) THEN Thrown("not a string")
       ELSE IF ~contains(block, "input") THEN Thrown("out of range")
       ELSE IF ~is_object(at(block, "input")) THEN Thrown("not an object")
       ELSE IF ~contains(block, "id") THEN Thrown("out of range")
       ELSE Value(Append(tool_results, ToolResultOf(block)))
  ELSE Value(tool_results)

RECURSIVE DispatchBlocks(_, _)
\* for (const auto &block_val : content_blocks): the tool_results it collects
DispatchBlocks(blocks, tool_results) ==
  IF blocks = <<>> THEN Value(tool_results)
  ELSE IF DispatchBlock(Head(blocks), tool_results).thrown # <<>>
  THEN DispatchBlock(Head(blocks), tool_results)
  ELSE DispatchBlocks(Tail(blocks), DispatchBlock(Head(blocks), tool_results).val)

\* messages_.push_back(assistant); the tool results follow if there are any
Appended(content_blocks, tool_results) ==
  IF tool_results.thrown # <<>> THEN [kind |-> "crash", what |-> tool_results.thrown]
  ELSE [kind |-> "appended", content_blocks |-> content_blocks,
        tool_results |-> tool_results.val]

\* content_data.at("content").as_array() and the loop over it
HandleContent(content_data) ==
  IF content_data.thrown # <<>> THEN [kind |-> "crash", what |-> content_data.thrown]
  ELSE IF ~contains(content_data.val, "content")
  THEN [kind |-> "crash", what |-> <<"out of range">>]
  ELSE IF ~is_array(at(content_data.val, "content"))
  THEN [kind |-> "crash", what |-> <<"not an array">>]
  ELSE Appended(at(content_data.val, "content").arr,
                DispatchBlocks(at(content_data.val, "content").arr, <<>>))

\* HandleResponse with a fault: every response goes through
\* normalize_openai_response
HandleResponseNormalizesAll(res, fmt) ==
  IF ~res.ok THEN [kind |-> "error", text |-> res.error]
  ELSE IF contains(res.raw_json, "error") THEN [kind |-> "api_error"]
  ELSE HandleContent(normalize_openai_response(res.raw_json))

\* what one iteration of run_agentic_loop does with the value send_request
\* returned:
\*   error      the failure is printed and the turn ends
\*   api_error  the response has an `error` member; printed, the turn ends
\*   crash      an exception leaves run_agentic_loop
\*   appended   the blocks were dispatched and the messages appended
HandleResponse(res, fmt) ==
  IF ~res.ok THEN [kind |-> "error", text |-> res.error]
  ELSE IF contains(res.raw_json, "error") THEN [kind |-> "api_error"]
  ELSE HandleContent(IF fmt = "anthropic" THEN Value(res.raw_json)
                     ELSE normalize_openai_response(res.raw_json))

-----------------------------------------------------------------------------
(* tools::get_tools_schema, Agent::get_llm_config and the payload builders *)

\* {{"type", t}} of a property
TypeOf(t) == Obj(<<Member("type", S(t))>>)

\* one entry of the schema
Tool(name, description, properties, required) ==
  Obj(<<Member("name", S(name)), Member("description", S(description)),
        Member("input_schema",
               Obj(<<Member("type", S("object")), Member("properties", Obj(properties)),
                     Member("required", Arr(required))>>))>>)

get_tools_schema ==
  << Tool("read", "Read file with line numbers (file path, not directory)",
          <<Member("path", TypeOf("string")), Member("offset", TypeOf("integer")),
            Member("limit", TypeOf("integer"))>>,
          <<S("path")>>),
     Tool("write", "Write content to file",
          <<Member("path", TypeOf("string")), Member("content", TypeOf("string"))>>,
          <<S("path"), S("content")>>),
     Tool("edit", "Replace old with new in file (old must be unique unless all=true)",
          <<Member("path", TypeOf("string")), Member("old", TypeOf("string")),
            Member("new", TypeOf("string")), Member("all", TypeOf("boolean"))>>,
          <<S("path"), S("old"), S("new")>>),
     Tool("glob", "Find files by pattern, sorted by mtime",
          <<Member("pat", TypeOf("string")), Member("path", TypeOf("string"))>>,
          <<S("pat")>>),
     Tool("grep", "Search files for regex pattern",
          <<Member("pat", TypeOf("string")), Member("path", TypeOf("string"))>>,
          <<S("pat")>>),
     Tool("bash", "Run shell command",
          <<Member("cmd", TypeOf("string"))>>,
          <<S("cmd")>>) >>

\* std::string::find(part) != npos, for a part that is one atom of the name
Finds(name, part) == \E i \in 1..Len(name) : name[i] = part

\* Agent::get_llm_config for current_model_ = model; the keys are those of
\* agent_config_
LLMConfig(model) ==
  IF Finds(model, "/")
  THEN [model |-> model, api_key |-> <<"openrouter_key">>,
        api_url |-> <<"https://", "openrouter", ".ai", "/", "api/v1/messages">>,
        is_anthropic_format |-> TRUE, is_openai_format |-> FALSE]
  ELSE IF Finds(model, "gemini") \/ Finds(model, "learnlm")
  THEN [model |-> model, api_key |-> <<"gemini_key">>,
        api_url |-> <<"https://", "generativelanguage", ".googleapis.com", "/",
                      "v1beta/openai/chat/completions">>,
        is_anthropic_format |-> FALSE, is_openai_format |-> TRUE]
  ELSE [model |-> model, api_key |-> <<"anthropic_key">>,
        api_url |-> <<"https://", "api", ".anthropic.com", "/", "v1/messages">>,
        is_anthropic_format |-> TRUE, is_openai_format |-> FALSE]

\* the branch the configuration selects wherever the code tests
\* is_anthropic_format first and is_openai_format second
FormatOf(config) ==
  IF config.is_anthropic_format THEN "anthropic"
  ELSE IF config.is_openai_format THEN "openai"
  ELSE "none"

\* the format get_llm_config selects for a model name
get_llm_config(model) == FormatOf(LLMConfig(model))

\* send_request: host and target of api_url
ParseUrl(api_url) ==
  LET url == IF StartsWith(api_url, <<"https://">>) THEN Rest(api_url, 1)
             ELSE IF StartsWith(api_url, <<"http://">>) THEN Rest(api_url, 1)
             ELSE api_url
      slash_pos == IF Finds(url, "/")
                   THEN CHOOSE i \in 1..Len(url) :
                          url[i] = "/" /\ \A k \in 1..(i - 1) : url[k] # "/"
                   ELSE 0
  IN  [host |-> IF slash_pos = 0 THEN url ELSE SubSeq(url, 1, slash_pos - 1),
       target |-> IF slash_pos = 0 THEN <<"/">> ELSE Rest(url, slash_pos - 1)]

Header(name, value) == [name |-> name, value |-> value]

\* Headers with a fault: every Anthropic-format request carries x-api-key
HeadersKeyEverywhere(config, host) ==
  <<Header("Host", host), Header("User-Agent", <<"Boost.Beast">>),
    Header("Content-Type", <<"application/json">>)>>
  \o (IF config.is_anthropic_format
      THEN <<Header("anthropic-version", <<"2023-06-01">>),
             Header("x-api-key", config.api_key)>>
      ELSE IF config.is_openai_format
      THEN <<Header("Authorization", <<"Bearer ">> \o config.api_key)>>
      ELSE <<>>)

\* send_request: the fields set on the http::request
Headers(config, host) ==
  <<Header("Host", host), Header("User-Agent", <<"Boost.Beast">>),
    Header("Content-Type", <<"application/json">>)>>
  \o (IF config.is_anthropic_format
      THEN <<Header("anthropic-version", <<"2023-06-01">>)>>
           \o (IF Finds(host, "openrouter")
               THEN <<Header("Authorization", <<"Bearer ">> \o config.api_key)>>
               ELSE <<Header("x-api-key", config.api_key)>>)
      ELSE IF config.is_openai_format
      THEN <<Header("Authorization", <<"Bearer ">> \o config.api_key)>>
      ELSE <<>>)

\* send_request: the POST request written for a payload; on_chunk tells
\* whether a callback was passed
HttpRequest(config, json, on_chunk) ==
  [host |-> ParseUrl(config.api_url).host,
   target |-> ParseUrl(config.api_url).target,
   headers |-> Headers(config, ParseUrl(config.api_url).host),
   body |-> IF on_chunk /\ (config.is_anthropic_format \/ config.is_openai_format)
            THEN SetMember(json, <<"stream">>, Bool(TRUE))
            ELSE json]

\* system_prompt_, as Agent::run sets it
system_prompt_ == <<"Concise coding assistant.">>

\* OpenAITool with a fault: the name is put where the description belongs
OpenAIToolNameTwice(anthropic_tool) ==
  Obj(<<Member("type", S("function")),
        Member("function",
               Obj(<<Member("name", at(anthropic_tool, "name")),
                     Member("description", at(anthropic_tool, "name")),
                     Member("parameters", at(anthropic_tool, "input_schema"))>>))>>)

\* one entry of the tools of an OpenAI payload
OpenAITool(anthropic_tool) ==
  Obj(<<Member("type", S("function")),
        Member("function",
               Obj(<<Member("name", at(anthropic_tool, "name")),
                     Member("description", at(anthropic_tool, "description")),
                     Member("parameters", at(anthropic_tool, "input_schema"))>>))>>)

\* a user message with array content: one tool message per tool_result
TranslateToolResults(items) ==
  LET results == SelectSeq(items, LAMBDA item : at(item, "type") = S("tool_result"))
  IN  [i \in 1..Len(results) |->
         Obj(<<Member("role", S("tool")),
               Member("tool_call_id", at(results[i], "tool_use_id")),
               Member("content", at(results[i], "content"))>>)]

\* text_content: the texts of the text blocks, concatenated
TextContent(blocks) ==
  LET texts == SelectSeq(blocks, LAMBDA block : at(block, "type") = S("text"))
  IN  Flatten([i \in 1..Len(texts) |-> at(texts[i], "text").str])

\* tool_calls: one entry per tool_use block
ToolCallsOf(blocks) ==
  LET uses == SelectSeq(blocks, LAMBDA block : at(block, "type") = S("tool_use"))
  IN  [i \in 1..Len(uses) |->
         Obj(<<Member("id", at(uses[i], "id")),
               Member("type", S("function")),
               Member("function",
                      Obj(<<Member("name", at(uses[i], "name")),
                            Member("arguments",
                                   Str(Serialize(at(uses[i], "input"))))>>))>>)]

\* the assistant message built from text_content and tool_calls
AssistantOf(text_content, tool_calls) ==
  Obj(<<Member("role", S("assistant"))>>
      \o (IF text_content # <<>> THEN <<Member("content", Str(text_content))>> ELSE <<>>)
      \o (IF tool_calls # <<>> THEN <<Member("tool_calls", Arr(tool_calls))>> ELSE <<>>))

\* TranslateAssistant with a fault: each text block replaces the text so far
TranslateAssistantLastText(content) ==
  IF is_array(content)
  THEN LET texts == SelectSeq(content.arr, LAMBDA block : at(block, "type") = S("text"))
       IN  <<AssistantOf(IF texts = <<>> THEN <<>> ELSE at(texts[Len(texts)], "text").str,
                         ToolCallsOf(content.arr))>>
  ELSE IF is_string(content)
  THEN <<Obj(<<Member("role", S("assistant")), Member("content", content)>>)>>
  ELSE <<>>

\* the messages an assistant message is translated to
TranslateAssistant(content) ==
  IF is_array(content)
  THEN <<AssistantOf(TextContent(content.arr), ToolCallsOf(content.arr))>>
  ELSE IF is_string(content)
  THEN <<Obj(<<Member("role", S("assistant")), Member("content", content)>>)>>
  ELSE <<>>

\* TranslateUser with a fault: the tool messages come out last first
TranslateUserReversed(content) ==
  IF is_string(content)
  THEN <<Obj(<<Member("role", S("user")), Member("content", content)>>)>>
  ELSE IF is_array(content)
  THEN [i \in 1..Len(TranslateToolResults(content.arr)) |->
          TranslateToolResults(content.arr)[Len(TranslateToolResults(content.arr)) + 1 - i]]
  ELSE <<>>

\* the messages a user message is translated to
TranslateUser(content) ==
  IF is_string(content)
  THEN <<Obj(<<Member("role", S("user")), Member("content", content)>>)>>
  ELSE IF is_array(content) THEN TranslateToolResults(content.arr)
  ELSE <<>>

\* the body of the loop over messages_
TranslateMessage(m) ==
  IF at(m, "role") = S("user") THEN TranslateUser(at(m, "content"))
  ELSE IF at(m, "role") = S("assistant") THEN TranslateAssistant(at(m, "content"))
  ELSE <<>>

build_openai_payload(model, messages) ==
  Obj(<<Member("model", Str(model)),
        Member("tools", Arr([i \in 1..Len(get_tools_schema) |->
                               OpenAITool(get_tools_schema[i])])),
        Member("messages",
               Arr(<<Obj(<<Member("role", S("system")),
                           Member("content", Str(system_prompt_))>>)>>
                   \o Flatten([i \in 1..Len(messages) |-> TranslateMessage(messages[i])])))>>)

build_anthropic_payload(model, messages) ==
  Obj(<<Member("model", Str(model)),
        Member("max_tokens", Num("8192")),
        Member("system", Str(system_prompt_)),
        Member("tools", Arr(get_tools_schema)),
        Member("messages", Arr(messages))>>)

-----------------------------------------------------------------------------
(* The state machine *)

FreshLocals ==
  [accumulated_body |-> <<>>, final_text |-> <<>>, anthropic_content |-> <<>>,
   openai_tool_calls |-> <<>>, current_anthropic_tool |-> EmptyObject,
   current_openai_tool |-> EmptyObject, current_tool_args |-> <<>>, emitted |-> <<>>,
   thrown |-> <<>>]

\* the response header has been read and its status is 200
Connected ==
  /\ status = 200
  /\ steps = <<"resolve", "connect", "handshake", "write", "header">>

\* one iteration of run_agentic_loop, on a conversation not looked at
OneRequest ==
  /\ messages_ = <<>>
  /\ agent = "request"
  /\ turn = <<>>
  /\ current_model_ = IF format = "anthropic" THEN <<"claude">> ELSE <<"gemini">>

\* no save file, no request written, no progress indicator spawned
NoFile == [exists |-> FALSE]
NoStore == [file |-> NoFile, saved |-> NoFile, said |-> <<>>]
NoRequest == <<>>
NoEdit == [pc |-> "none"]
NoSpinner == [active |-> FALSE, task |-> "none", frames |-> 0]

\* *spinner_active = false, by on_chunk at its first call and by
\* run_agentic_loop once send_request has returned
Cancelled(sp) == [sp EXCEPT !.active = FALSE]

InitLocals ==
  /\ accumulated_body = FreshLocals.accumulated_body
  /\ final_text = FreshLocals.final_text
  /\ anthropic_content = FreshLocals.anthropic_content
  /\ openai_tool_calls = FreshLocals.openai_tool_calls
  /\ current_anthropic_tool = FreshLocals.current_anthropic_tool
  /\ current_openai_tool = FreshLocals.current_openai_tool
  /\ current_tool_args = FreshLocals.current_tool_args
  /\ emitted = FreshLocals.emitted
  /\ result = NoResult
  /\ outcome = NoOutcome
  /\ err_body = <<>>
  /\ payload = EmptyObject
  /\ roundtrip = <<>>

\* the locals after a pass of the read loop; an exception is caught and
\* returned as a failure
AfterRead(d) ==
  /\ accumulated_body' = d.accumulated_body
  /\ final_text' = d.final_text
  /\ anthropic_content' = d.anthropic_content
  /\ openai_tool_calls' = d.openai_tool_calls
  /\ current_anthropic_tool' = d.current_anthropic_tool
  /\ current_openai_tool' = d.current_openai_tool
  /\ current_tool_args' = d.current_tool_args
  /\ emitted' = d.emitted
  /\ spinner' = IF d.emitted # emitted THEN Cancelled(spinner) ELSE spinner
  /\ IF d.thrown # <<>>
     THEN pc' = "returned" /\ result' = Caught(d.thrown)
     ELSE pc' = "reading" /\ result' = result

\* the lines the upstream chooses from when each read delivers one line
Lines(fmt) == {FrameLine(j) : j \in Frames(fmt)} \cup {MalformedLine}

Init ==
  /\ format \in {"anthropic", "openai"}
  /\ Connected
  /\ OneRequest
  /\ streaming = TRUE
  /\ wire = <<>>
  /\ sent = <<>>
  /\ split = FALSE
  /\ pc = "reading"
  /\ InitLocals
  /\ store = NoStore /\ request = NoRequest /\ spinner = NoSpinner /\ trailing = <<>> /\ indicators = <<>> /\ edit = NoEdit

\* async_read_some delivers exactly the next line of the body
ReadLine ==
  /\ pc = "reading"
  /\ streaming
  /\ Len(sent) < MaxLines
  /\ \E l \in Lines(format) :
       /\ sent' = Append(sent, l)
       /\ AfterRead(ProcessChunk(Locals, format, LineText(l) \o <<NL>>))
  /\ UNCHANGED <<format, streaming, wire, split, outcome, transportVars, agentVars,
                 store, request, trailing, indicators, edit>>

\* parser.is_done(): flush, final assembly, shutdown, return
StreamEnd ==
  /\ pc = "reading"
  /\ streaming
  /\ wire = <<>>
  /\ result' = Response(FinalResponse(Locals, format))
  /\ openai_tool_calls' =
       IF format = "openai" /\ ~empty(current_openai_tool)
       THEN FlushOpenAITool(Locals).openai_tool_calls
       ELSE openai_tool_calls
  /\ steps' = Append(steps, "shutdown")
  /\ pc' = "returned"
  /\ UNCHANGED <<format, streaming, wire, sent, split, accumulated_body, final_text,
                 anthropic_content, current_anthropic_tool, current_openai_tool,
                 current_tool_args, emitted, outcome, status, err_body, agentVars,
                 sessionVars>>

\* run_agentic_loop after co_await send_request
Handle ==
  /\ pc = "returned"
  /\ streaming
  /\ spinner' = Cancelled(spinner)
  /\ outcome' = HandleResponse(result, format)
  /\ pc' = "handled"
  /\ UNCHANGED <<format, streaming, wire, sent, split, accumulated_body, final_text,
                 anthropic_content, openai_tool_calls, current_anthropic_tool,
                 current_openai_tool, current_tool_args, emitted, result,
                 transportVars, agentVars, store, request, trailing, indicators, edit>>

Next == ReadLine \/ StreamEnd \/ Handle

Spec == Init /\ [][Next]_vars

-----------------------------------------------------------------------------
(* Reads that split the body at arbitrary bytes *)

\* sizeof(body_buf)
BodyBufSize == 8192

RECURSIVE Seqs(_, _)
\* every sequence of at most n elements of a set
Seqs(set, n) ==
  IF n = 0 THEN {<<>>}
  ELSE LET shorter == Seqs(set, n - 1)
       IN  shorter \cup {Append(t, a) : t \in {s \in shorter : Len(s) = n - 1}, a \in set}

RECURSIVE BodyOf(_)
\* the bytes of a body of newline-terminated lines
BodyOf(lines) ==
  IF lines = <<>> THEN <<>> ELSE LineText(Head(lines)) \o <<NL>> \o BodyOf(Tail(lines))

\* the lines the upstream chooses from when reads split the body
ChunkLines(fmt) ==
  {MalformedLine, RawLine(<<":">>)}
  \cup (IF fmt = "anthropic"
        THEN {FrameLine(ATextDelta(<<"a">>)),
              RawLine(DataPrefix \o FrameText(ATextDelta(<<"b">>)) \o <<CR>>),
              FrameLine(AStart("tool_use", "t1", "bash")), FrameLine(AStop),
              FrameLine(ANoDelta)}
        ELSE {FrameLine(OContent(<<"a">>)),
              RawLine(DataPrefix \o FrameText(OContent(<<"b">>)) \o <<CR>>),
              FrameLine(OToolCalls(<<OOpen("t1", "bash")>>)),
              FrameLine(OToolCalls(<<OArgs(FragA)>>)),
              FrameLine(OToolCalls(<<ONoFunction>>))})

InitChunk ==
  /\ format \in {"anthropic", "openai"}
  /\ Connected
  /\ OneRequest
  /\ streaming = TRUE
  /\ sent \in Seqs(ChunkLines(format), MaxChunkLines)
  /\ wire = BodyOf(sent)
  /\ split = FALSE
  /\ pc = "reading"
  /\ InitLocals
  /\ store = NoStore /\ request = NoRequest /\ spinner = NoSpinner /\ trailing = <<>> /\ indicators = <<>> /\ edit = NoEdit

\* async_read_some delivers the next n bytes of the body, at most a bufferful
ReadSome ==
  /\ pc = "reading"
  /\ streaming
  /\ \E n \in 1..Len(wire) :
       /\ n <= BodyBufSize
       /\ wire' = Rest(wire, n)
       /\ split' = (split \/ wire[n] # NL)
       /\ AfterRead(ProcessChunk(Locals, format, SubSeq(wire, 1, n)))
  /\ UNCHANGED <<format, streaming, sent, outcome, transportVars, agentVars,
                 store, request, trailing, indicators, edit>>

NextChunk == ReadSome \/ StreamEnd

SpecChunk == InitChunk /\ [][NextChunk]_vars

-----------------------------------------------------------------------------
(* A streamed body with lines the decoder passes over and an unterminated end *)

\* most lines of such a body
MaxTailLines == 2

\* a line that fails starts_with("data: "), the [DONE] sentinel and, for
\* Anthropic, an event of another type
PassedOver(fmt) ==
  {RawLine(<<"d", "a", "t", "a", ":">>), RawLine(DataPrefix \o Done)}
  \cup (IF fmt = "anthropic" THEN {FrameLine(AMessageStart)} ELSE {})

TailLines(fmt) ==
  PassedOver(fmt)
  \cup (IF fmt = "anthropic"
        THEN {FrameLine(ATextDelta(<<"a">>)), FrameLine(AStart("tool_use", "t1", "bash")),
              FrameLine(AStop)}
        ELSE {FrameLine(OContent(<<"a">>)), FrameLine(OToolCalls(<<OOpen("t1", "bash")>>)),
              FrameLine(OToolCalls(<<OArgs(FragA)>>))})

\* what the upstream sends after the last newline: nothing, the start of a
\* line, or a whole frame
Tails(fmt) ==
  {<<>>, <<"d", "a">>,
   DataPrefix \o FrameText(IF fmt = "anthropic" THEN ATextDelta(<<"b">>)
                                                ELSE OContent(<<"b">>))}

InitTail ==
  /\ format \in {"anthropic", "openai"}
  /\ Connected
  /\ OneRequest
  /\ streaming = TRUE
  /\ sent \in Seqs(TailLines(format), MaxTailLines)
  /\ trailing \in Tails(format)
  /\ indicators = <<>> /\ edit = NoEdit
  /\ wire = BodyOf(sent) \o trailing
  /\ split = FALSE
  /\ pc = "reading"
  /\ InitLocals
  /\ store = NoStore /\ request = NoRequest /\ spinner = NoSpinner

SpecTail == InitTail /\ [][NextChunk]_vars

-----------------------------------------------------------------------------
(* The progress indicator of run_agentic_loop beside the reads of a request *)

\* most lines of the body, and most frames the indicator prints
MaxSpinnerLines == 2
MaxSpinnerFrames == 2

\* a line that is passed over, a text frame and the start of a tool call
SpinnerLines(fmt) ==
  {RawLine(<<":">>)}
  \cup (IF fmt = "anthropic"
        THEN {FrameLine(ATextDelta(<<"a">>)), FrameLine(AStart("tool_use", "t1", "bash"))}
        ELSE {FrameLine(OContent(<<"a">>)), FrameLine(OToolCalls(<<OOpen("t1", "bash")>>))})

\* The indicator was spawned before the request; by the time the header is
\* read it has printed its first frame and waits on its timer.
InitSpinner ==
  /\ format \in {"anthropic", "openai"}
  /\ Connected
  /\ OneRequest
  /\ streaming = TRUE
  /\ sent \in Seqs(SpinnerLines(format), MaxSpinnerLines)
  /\ wire = BodyOf(sent)
  /\ split = FALSE
  /\ pc = "reading"
  /\ InitLocals
  /\ spinner = [active |-> TRUE, task |-> "waiting", frames |-> 1]
  /\ store = NoStore /\ request = NoRequest /\ trailing = <<>> /\ indicators = <<>> /\ edit = NoEdit

\* the timer of the indicator expires and the coroutine is resumed: it tests
\* *spinner_active, and either prints the next frame and waits again or ends
TimerWakeUp ==
  /\ spinner.task = "waiting"
  /\ spinner.active => spinner.frames < MaxSpinnerFrames
  /\ spinner' = IF spinner.active
                THEN [spinner EXCEPT !.frames = @ + 1]
                ELSE [spinner EXCEPT !.task = "done"]
  /\ UNCHANGED <<format, streaming, wire, sent, split, accumulated_body, final_text,
                 anthropic_content, openai_tool_calls, current_anthropic_tool,
                 current_openai_tool, current_tool_args, emitted, pc, result, outcome,
                 transportVars, agentVars, store, request, trailing, indicators, edit>>

NextSpinner == ReadSome \/ StreamEnd \/ Handle \/ TimerWakeUp

SpecSpinner == InitSpinner /\ [][NextSpinner]_vars

-----------------------------------------------------------------------------
(* The buffered request *)

InitBuffered ==
  /\ format \in {"anthropic", "openai"}
  /\ Connected
  /\ OneRequest
  /\ streaming = FALSE
  /\ wire \in Bodies
  /\ sent = <<>>
  /\ split = FALSE
  /\ pc = "read"
  /\ InitLocals
  /\ store = NoStore /\ request = NoRequest /\ spinner = NoSpinner /\ trailing = <<>> /\ indicators = <<>> /\ edit = NoEdit

\* BufferedRead with a fault: the status is checked as in the streaming branch
BufferedReadChecksStatus ==
  /\ pc = "read"
  /\ ~streaming
  /\ result' = IF status # 200
               THEN Unexpected(<<"HTTP Error ", ToString(status), ": ">> \o wire)
               ELSE BufferedResult(wire)
  /\ wire' = <<>>
  /\ sent' = <<RawLine(wire)>>
  /\ steps' = steps \o <<"read", "shutdown">>
  /\ pc' = "returned"
  /\ UNCHANGED <<format, streaming, split, accumulated_body, final_text,
                 anthropic_content, openai_tool_calls, current_anthropic_tool,
                 current_openai_tool, current_tool_args, emitted, outcome, status,
                 err_body, agentVars, sessionVars>>

\* http::async_read of the whole body, shutdown, parse, shape check
BufferedRead ==
  /\ pc = "read"
  /\ ~streaming
  /\ result' = BufferedResult(wire)
  /\ wire' = <<>>
  /\ sent' = <<RawLine(wire)>>
  /\ steps' = steps \o <<"read", "shutdown">>
  /\ pc' = "returned"
  /\ UNCHANGED <<format, streaming, split, accumulated_body, final_text,
                 anthropic_content, openai_tool_calls, current_anthropic_tool,
                 current_openai_tool, current_tool_args, emitted, outcome, status,
                 err_body, agentVars, sessionVars>>

NextBuffered == BufferedRead

SpecBuffered == InitBuffered /\ [][NextBuffered]_vars

-----------------------------------------------------------------------------
(* send_request from its first network operation *)

\* the status codes the upstream answers with
Statuses == {200, 204, 404}

\* what() of the system_error a failed network operation throws
TransportError(op) == <<op, ": system_error">>

\* StatusError with a fault: the colon comes before the status code
StatusErrorColonFirst(code, body) ==
  Unexpected(<<"HTTP Error: ", ToString(code), " ">> \o body)

\* "HTTP Error " + std::to_string(result_int()) + ": " + err_body
StatusError(code, body) == Unexpected(<<"HTTP Error ", ToString(code), ": ">> \o body)

\* char buf[8192] of the status check
DrainBufSize == 8192

InitHttp ==
  /\ current_model_ \in {<<"claude">>, <<"gemini">>, <<"org", "/", "gemini">>}
  /\ format = get_llm_config(current_model_)
  /\ streaming \in BOOLEAN
  /\ status \in Statuses
  /\ steps = <<>>
  /\ messages_ = <<>> /\ agent = "request" /\ turn = <<>>
  /\ IF streaming
     THEN sent \in Seqs(ChunkLines(format), MaxHttpLines) /\ wire = BodyOf(sent)
     ELSE sent = <<>> /\ wire \in Texts(BodyAtoms, MaxHttpBody)
  /\ split = FALSE
  /\ pc = "resolve"
  /\ InitLocals
  /\ store = NoStore /\ request = NoRequest /\ spinner = NoSpinner /\ trailing = <<>> /\ indicators = <<>> /\ edit = NoEdit

\* a network operation of the connection set-up completes
Completes(op, next) ==
  /\ pc = op
  /\ steps' = Append(steps, op)
  /\ pc' = next
  /\ UNCHANGED <<format, streaming, wire, sent, split, accumulated_body, final_text,
                 anthropic_content, openai_tool_calls, current_anthropic_tool,
                 current_openai_tool, current_tool_args, emitted, result, outcome,
                 status, err_body, agentVars, sessionVars>>

\* co_await resolver.async_resolve
Resolve == Completes("resolve", "connect")
\* SSL_set_tlsext_host_name; co_await async_connect
Connect == Completes("connect", "handshake")
\* co_await stream.async_handshake
Handshake == Completes("handshake", "write")
\* the request is built; co_await http::async_write
Write ==
  /\ pc = "write"
  /\ request' = HttpRequest(LLMConfig(current_model_), payload, streaming)
  /\ steps' = Append(steps, "write")
  /\ pc' = IF streaming THEN "header" ELSE "read"
  /\ UNCHANGED <<format, streaming, wire, sent, split, accumulated_body, final_text,
                 anthropic_content, openai_tool_calls, current_anthropic_tool,
                 current_openai_tool, current_tool_args, emitted, result, outcome,
                 status, err_body, agentVars, store, spinner, trailing, indicators, edit>>

\* a network operation fails: its system_error is thrown, and caught at the
\* end of send_request.  In the streaming read loop an error code other than
\* need_buffer is thrown by the loop itself.
TransportFail ==
  /\ pc \in {"resolve", "connect", "handshake", "write", "header", "read"}
     \/ (pc = "reading" /\ wire # <<>>)
  /\ steps' = Append(steps, "error")
  /\ result' = Caught(TransportError(pc))
  /\ pc' = "returned"
  /\ UNCHANGED <<format, streaming, wire, sent, split, accumulated_body, final_text,
                 anthropic_content, openai_tool_calls, current_anthropic_tool,
                 current_openai_tool, current_tool_args, emitted, outcome,
                 status, err_body, agentVars, sessionVars>>

\* ReadHeader with a fault: only server errors fail the request
ReadHeaderServerErrors ==
  /\ pc = "header"
  /\ streaming
  /\ steps' = Append(steps, "header")
  /\ pc' = IF status < 500 THEN "reading" ELSE "drain"
  /\ UNCHANGED <<format, streaming, wire, sent, split, accumulated_body, final_text,
                 anthropic_content, openai_tool_calls, current_anthropic_tool,
                 current_openai_tool, current_tool_args, emitted, result, outcome,
                 status, err_body, agentVars, sessionVars>>

\* co_await http::async_read_header; the status check
ReadHeader ==
  /\ pc = "header"
  /\ streaming
  /\ steps' = Append(steps, "header")
  /\ pc' = IF status = 200 THEN "reading" ELSE "drain"
  /\ UNCHANGED <<format, streaming, wire, sent, split, accumulated_body, final_text,
                 anthropic_content, openai_tool_calls, current_anthropic_tool,
                 current_openai_tool, current_tool_args, emitted, result, outcome,
                 status, err_body, agentVars, sessionVars>>

\* a pass of the drain loop: the next n bytes of the body go to err_body
DrainSome ==
  /\ pc = "drain"
  /\ \E n \in 1..Len(wire) :
       /\ n <= DrainBufSize
       /\ err_body' = err_body \o SubSeq(wire, 1, n)
       /\ wire' = Rest(wire, n)
  /\ UNCHANGED <<format, streaming, sent, split, accumulated_body, final_text,
                 anthropic_content, openai_tool_calls, current_anthropic_tool,
                 current_openai_tool, current_tool_args, emitted, pc, result, outcome,
                 status, steps, agentVars, sessionVars>>

\* the drain loop ends, at parser.is_done() or at a read error (break), and
\* the status failure is returned
DrainEnd ==
  /\ pc = "drain"
  /\ steps' = IF wire = <<>> THEN steps ELSE Append(steps, "break")
  /\ result' = StatusError(status, err_body)
  /\ pc' = "returned"
  /\ UNCHANGED <<format, streaming, wire, sent, split, accumulated_body, final_text,
                 anthropic_content, openai_tool_calls, current_anthropic_tool,
                 current_openai_tool, current_tool_args, emitted, outcome,
                 status, err_body, agentVars, sessionVars>>

NextHttp ==
  \/ Resolve \/ Connect \/ Handshake \/ Write \/ TransportFail
  \/ ReadHeader \/ DrainSome \/ DrainEnd
  \/ ReadSome \/ StreamEnd \/ BufferedRead

SpecHttp == InitHttp /\ [][NextHttp]_vars

-----------------------------------------------------------------------------
(* The payload builders on a loaded conversation *)

TextBlock(text) == Obj(<<Member("type", S("text")), Member("text", Str(text))>>)

ToolUse(id, name, input) ==
  Obj(<<Member("type", S("tool_use")), Member("id", S(id)), Member("name", S(name)),
        Member("input", input)>>)

ToolResult(id, content) ==
  Obj(<<Member("type", S("tool_result")), Member("tool_use_id", S(id)),
        Member("content", Str(content))>>)

Message(role, content) == Obj(<<Member("role", S(role)), Member("content", content)>>)

\* the inputs of the tool calls tried: objects, one with a quote and a
\* backslash in a string, one nested, and an array
InputQuoted == Obj(<<Member("cmd", Str(<<"l", QUOTE, "s", BACKSLASH>>))>>)
InputNested == Obj(<<Member("n", Arr(<<Num("1"), EmptyObject>>))>>)
InputArray == Arr(<<Num("1")>>)

\* the messages a saved conversation is made of
MessagePool ==
  { Message("user", S("hi")),
    Message("user", Arr(<<ToolResult("t1", <<"out">>), ToolResult("t2", <<"x">>)>>)),
    Message("user", Arr(<<TextBlock(<<"a">>)>>)),
    Message("tool", S("out")),
    Message("assistant", S("ok")),
    Message("assistant", Arr(<<>>)),
    Message("assistant", Arr(<<TextBlock(<<"a">>)>>)),
    Message("assistant", Arr(<<ToolUse("t1", "bash", EmptyObject)>>)),
    Message("assistant", Arr(<<TextBlock(<<"a">>), ToolUse("t1", "bash", InputQuoted)>>)),
    Message("assistant", Arr(<<TextBlock(<<"a">>), ToolUse("t1", "read", EmptyObject),
                               ToolUse("t2", "bash", InputNested)>>)),
    Message("assistant", Arr(<<TextBlock(<<"a">>), TextBlock(<<"b">>),
                               ToolUse("t1", "bash", EmptyObject)>>)),
    Message("assistant", Arr(<<ToolUse("t1", "bash", EmptyObject), TextBlock(<<"a">>)>>)),
    Message("assistant", Arr(<<TextBlock(<<>>), ToolUse("t1", "bash", EmptyObject)>>)),
    Message("assistant", Arr(<<TextBlock(<<"a">>), ToolUse("t1", "bash", InputArray)>>)) }

\* a conversation and a model have been loaded; no request has been made
InitPayload ==
  /\ current_model_ \in {<<"claude">>, <<"gemini">>, <<"org", "/", "gemini">>}
  /\ format = get_llm_config(current_model_)
  /\ messages_ \in Seqs(MessagePool, MaxMessages)
  /\ agent = "request"
  /\ turn = <<>>
  /\ streaming = TRUE
  /\ status = 200
  /\ steps = <<>>
  /\ wire = <<>>
  /\ sent = <<>>
  /\ split = FALSE
  /\ pc = "build"
  /\ InitLocals
  /\ store = NoStore /\ request = NoRequest /\ spinner = NoSpinner /\ trailing = <<>> /\ indicators = <<>> /\ edit = NoEdit

\* run_agentic_loop builds the payload of the format the model name selects
BuildPayload ==
  /\ pc = "build"
  /\ payload' = IF get_llm_config(current_model_) = "anthropic"
                THEN build_anthropic_payload(current_model_, messages_)
                ELSE build_openai_payload(current_model_, messages_)
  /\ pc' = "built"
  /\ UNCHANGED roundtrip
  /\ UNCHANGED <<format, streaming, wire, sent, split, accumulated_body, final_text,
                 anthropic_content, openai_tool_calls, current_anthropic_tool,
                 current_openai_tool, current_tool_args, emitted, result, outcome,
                 transportVars, messages_, agent, turn, current_model_, sessionVars>>

\* every message m of an OpenAI payload comes back as the message of a
\* response {choices: [{message: m}]}, and normalize_openai_response is
\* applied to it
NormalizeBack ==
  /\ pc = "built"
  /\ format = "openai"
  /\ roundtrip' = [i \in 1..Len(at(payload, "messages").arr) |->
                     normalize_openai_response(
                       Obj(<<Member("choices",
                                    Arr(<<Obj(<<Member("message",
                                                       at(payload, "messages").arr[i])>>)>>))>>))]
  /\ pc' = "normalized"
  /\ UNCHANGED payload
  /\ UNCHANGED <<format, streaming, wire, sent, split, accumulated_body, final_text,
                 anthropic_content, openai_tool_calls, current_anthropic_tool,
                 current_openai_tool, current_tool_args, emitted, result, outcome,
                 transportVars, messages_, agent, turn, current_model_, sessionVars>>

NextPayload == BuildPayload \/ NormalizeBack

SpecPayload == InitPayload /\ [][NextPayload]_vars

-----------------------------------------------------------------------------
(* Agent::run: /save, /load, /c and /model, on one file *)

\* most messages of the conversation at the start
MaxSessionMessages == 2

\* the messages of the conversations tried; the output of a tool is the bytes
\* the command wrote, whatever they are
SessionPool ==
  { Message("user", S("hi")),
    Message("assistant", Arr(<<ToolUse("t1", "bash", InputQuoted)>>)),
    Message("user", Arr(<<ToolResult("t1", <<"out", INVALID_UTF8>>)>>)) }

File(content) == [exists |-> TRUE, content |-> content]

\* the file is absent, or holds a legacy save, or something that is no save
InitSession ==
  /\ current_model_ \in {<<"claude">>, <<"gemini">>}
  /\ format = get_llm_config(current_model_)
  /\ messages_ \in Seqs(SessionPool, MaxSessionMessages)
  /\ store \in {[NoStore EXCEPT !.file = f] :
                  f \in {NoFile, File(Serialize(Arr(<<Message("user", S("hi"))>>))),
                         File(<<"1">>)}}
  /\ agent = "prompt"
  /\ turn = <<>>
  /\ streaming = TRUE
  /\ status = 200
  /\ steps = <<>>
  /\ wire = <<>>
  /\ sent = <<>>
  /\ split = FALSE
  /\ pc = "build"
  /\ InitLocals
  /\ request = NoRequest /\ spinner = NoSpinner /\ trailing = <<>> /\ indicators = <<>> /\ edit = NoEdit

\* /save <file>: the file is opened for writing, or it is not.  The payload
\* of the last run_agentic_loop is gone by the time a command is read.
Save ==
  /\ agent = "prompt"
  /\ \E opened \in BOOLEAN :
       store' = IF opened
                THEN [file |-> File(Serialize(Obj(<<Member("model", Str(current_model_)),
                                                    Member("messages", Arr(messages_))>>))),
                      saved |-> [exists |-> TRUE, model |-> current_model_,
                                 messages |-> messages_],
                      said |-> <<"Saved conversation and model context to ">>]
                ELSE [store EXCEPT !.said = <<"Failed to open ", " for writing">>]
  /\ pc' = "build"
  /\ payload' = EmptyObject
  /\ UNCHANGED <<format, streaming, wire, sent, split, accumulated_body, final_text,
                 anthropic_content, openai_tool_calls, current_anthropic_tool,
                 current_openai_tool, current_tool_args, emitted, result, outcome,
                 transportVars, messages_, agent, turn, current_model_, roundtrip,
                 request, spinner, trailing, indicators, edit>>

\* what /load <file> makes of the text of the file
Loaded(model, messages, content) ==
  LET parsed == ParseText(content)
  IN  IF ~parsed.ok
      THEN [model |-> model, messages |-> messages, said |-> <<"Failed to parse ">>]
      ELSE IF is_object(parsed.val)
      THEN [model |-> IF contains(parsed.val, "model") /\ is_string(at(parsed.val, "model"))
                      THEN at(parsed.val, "model").str ELSE model,
            messages |-> IF contains(parsed.val, "messages")
                            /\ is_array(at(parsed.val, "messages"))
                         THEN at(parsed.val, "messages").arr ELSE messages,
            said |-> <<"Loaded conversation and restored model from ">>]
      ELSE IF is_array(parsed.val)
      THEN [model |-> model, messages |-> parsed.val.arr,
            said |-> <<"Loaded legacy conversation from ">>]
      ELSE [model |-> model, messages |-> messages,
            said |-> <<"Invalid save file format in ">>]

\* /load <file>
Load ==
  /\ agent = "prompt"
  /\ LET l == IF store.file.exists
              THEN Loaded(current_model_, messages_, store.file.content)
              ELSE [model |-> current_model_, messages |-> messages_,
                    said |-> <<"Failed to open ", " for reading">>]
     IN  /\ current_model_' = l.model
         /\ messages_' = l.messages
         /\ store' = [store EXCEPT !.said = l.said]
  /\ pc' = "build"
  /\ payload' = EmptyObject
  /\ UNCHANGED <<format, streaming, wire, sent, split, accumulated_body, final_text,
                 anthropic_content, openai_tool_calls, current_anthropic_tool,
                 current_openai_tool, current_tool_args, emitted, result, outcome,
                 transportVars, agent, turn, roundtrip, request, spinner, trailing, indicators, edit>>

\* /c
Clear ==
  /\ agent = "prompt"
  /\ messages_' = <<>>
  /\ store' = [store EXCEPT !.said = <<"Cleared conversation">>]
  /\ pc' = "build"
  /\ payload' = EmptyObject
  /\ UNCHANGED <<format, streaming, wire, sent, split, accumulated_body, final_text,
                 anthropic_content, openai_tool_calls, current_anthropic_tool,
                 current_openai_tool, current_tool_args, emitted, result, outcome,
                 transportVars, agent, turn, current_model_, roundtrip, request,
                 spinner, trailing, indicators, edit>>

\* Agent::run reads /model <name>: a name that is not empty becomes
\* current_model_
SwitchModel ==
  /\ agent = "prompt"
  /\ \E new_model \in {<<>>, <<"claude">>, <<"gemini">>, <<"org", "/", "gemini">>} :
       current_model_' = IF new_model # <<>> THEN new_model ELSE current_model_
  /\ UNCHANGED <<format, streaming, wire, sent, split, accumulated_body, final_text,
                 anthropic_content, openai_tool_calls, current_anthropic_tool,
                 current_openai_tool, current_tool_args, emitted, pc, result, outcome,
                 transportVars, messages_, agent, turn, payload, roundtrip, sessionVars>>

\* /q, and the program is started again: the agent is constructed with the
\* initial model and no messages; the file is where it was
Restart ==
  /\ agent = "prompt"
  /\ current_model_' \in {<<"claude">>, <<"gemini">>}
  /\ messages_' = <<>>
  /\ payload' = EmptyObject
  /\ store' = [store EXCEPT !.said = <<>>]
  /\ pc' = "build"
  /\ UNCHANGED <<format, streaming, wire, sent, split, accumulated_body, final_text,
                 anthropic_content, openai_tool_calls, current_anthropic_tool,
                 current_openai_tool, current_tool_args, emitted, result, outcome,
                 transportVars, agent, turn, roundtrip, request, spinner, trailing, indicators, edit>>

NextSession == Save \/ Load \/ Clear \/ SwitchModel \/ BuildPayload \/ Restart

SpecSession == InitSession /\ [][NextSession]_vars

-----------------------------------------------------------------------------
(* Agent::run and run_agentic_loop, one request after the other *)

\* the network operations of send_request up to the response header, in the
\* order the code performs them
NetworkOps == <<"resolve", "connect", "handshake", "write", "header">>

AnthropicToolCall(id, name) ==
  <<FrameLine(AStart("tool_use", id, name)), FrameLine(AJsonDelta(FragA)), FrameLine(AJsonDelta(FragB)),
    FrameLine(AStop)>>

AnthropicStreams ==
  { <<>>,
    <<FrameLine(ATextDelta(<<"a">>))>>,
    AnthropicToolCall("t1", "bash"),
    AnthropicToolCall("t1", "bash") \o AnthropicToolCall("t2", "read"),
    <<FrameLine(AStart("tool_use", "t1", "bash")), FrameLine(AStop)>>,
    AnthropicToolCall("t1", "glob"),
    <<MalformedLine>>,
    <<FrameLine(ANoDelta)>>,
    <<FrameLine(ATextDelta(<<"a">>)), FrameLine(ANoDelta)>> }

OpenAIStreams ==
  { <<>>,
    <<FrameLine(OContent(<<"a">>))>>,
    <<FrameLine(OToolCalls(<<OOpenArgs("t2", "read", FragA)>>)), FrameLine(OToolCalls(<<OArgs(FragB)>>))>>,
    <<FrameLine(OContent(<<"a">>)), FrameLine(OToolCalls(<<OOpenArgs("t2", "read", FragA)>>)),
      FrameLine(OToolCalls(<<OArgs(FragB)>>))>>,
    <<FrameLine(OToolCalls(<<OOpen("t1", "bash")>>)), FrameLine(OToolCalls(<<OArgs(FragA)>>)),
      FrameLine(OToolCalls(<<OArgs(FragB)>>)),
      FrameLine(OToolCalls(<<OOpenArgs("t2", "read", FragA)>>)), FrameLine(OToolCalls(<<OArgs(FragB)>>))>>,
    <<FrameLine(OToolCalls(<<OOpen("t1", "bash")>>))>>,
    <<FrameLine(OToolCalls(<<OOpen("t1", "glob")>>)), FrameLine(OToolCalls(<<OArgs(FragA)>>)),
      FrameLine(OToolCalls(<<OArgs(FragB)>>))>>,
    <<MalformedLine>>,
    <<FrameLine(OToolCalls(<<ONoFunction>>))>>,
    <<FrameLine(OContent(<<"a">>)), FrameLine(OToolCalls(<<ONoFunction>>))>> }

\* what the upstream does with a request: it fails at a network operation,
\* answers with an error status and a body, or streams lines
Answers(fmt) ==
  {[failed |-> NetworkOps[k]] : k \in 1..Len(NetworkOps)}
  \cup {[failed |-> "", status |-> 404, lines |-> <<FrameLine(OContent(<<"a">>))>>]}
  \cup {[failed |-> "", status |-> 200, lines |-> lines] :
          lines \in (IF fmt = "anthropic" THEN AnthropicStreams ELSE OpenAIStreams)}

\* the network operations begun before the request returned
StepsOf(answer) ==
  IF answer.failed = "" THEN NetworkOps
  ELSE SubSeq(NetworkOps, 1, CHOOSE k \in 1..Len(NetworkOps) : NetworkOps[k] = answer.failed)
       \o <<"error">>

\* what send_request returns
send_request(answer, fmt) ==
  IF answer.failed # "" THEN Caught(TransportError(answer.failed))
  ELSE IF answer.status # 200 THEN StatusError(answer.status, BodyOf(answer.lines))
  ELSE ReturnedFrom(DecodeLines(FreshLocals, fmt, answer.lines), fmt)

\* Pushed with a fault: a failed iteration records the text already printed
PushedPrinted(messages, o) ==
  IF o.kind \in {"error", "api_error"}
  THEN messages \o <<Message("assistant", Arr(<<>>))>>
  ELSE IF o.kind # "appended" THEN messages
  ELSE messages
       \o <<Message("assistant", Arr(o.content_blocks))>>
       \o (IF o.tool_results = <<>> THEN <<>>
           ELSE <<Message("user", Arr(o.tool_results))>>)

\* messages_ after the iteration
Pushed(messages, o) ==
  IF o.kind # "appended" THEN messages
  ELSE messages
       \o <<Message("assistant", Arr(o.content_blocks))>>
       \o (IF o.tool_results = <<>> THEN <<>>
           ELSE <<Message("user", Arr(o.tool_results))>>)

\* AfterIteration with a fault: a failed request is sent again
AfterIterationRetry(o) ==
  IF o.kind = "crash" THEN "crashed"
  ELSE IF o.kind \in {"error", "api_error"} THEN "request"
  ELSE IF o.tool_results = <<>> THEN "prompt"
  ELSE "request"

\* where the agent is after the iteration: an exception leaves Agent::run and
\* main stops the io_context; a break returns to the prompt; otherwise the
\* loop goes round
AfterIteration(o) ==
  IF o.kind = "crash" THEN "crashed"
  ELSE IF o.kind \in {"error", "api_error"} THEN "prompt"
  ELSE IF o.tool_results = <<>> THEN "prompt"
  ELSE "request"

InitAgent ==
  /\ current_model_ \in {<<"claude">>, <<"gemini">>}
  /\ format = get_llm_config(current_model_)
  /\ messages_ = <<>>
  /\ agent = "prompt"
  /\ turn = <<>>
  /\ streaming = TRUE
  /\ status = 200
  /\ steps = <<>>
  /\ wire = <<>>
  /\ sent = <<>>
  /\ split = FALSE
  /\ pc = "build"
  /\ InitLocals
  /\ store = NoStore /\ request = NoRequest /\ spinner = NoSpinner /\ trailing = <<>> /\ indicators = <<>> /\ edit = NoEdit

\* Agent::run reads a line that is not a command and starts a turn; the
\* locals of the last run_agentic_loop and of its send_request are gone
UserInput ==
  /\ agent = "prompt"
  /\ Len(messages_) < MaxConversation
  /\ \E user_input \in {<<"hi">>} :
       messages_' = Append(messages_, Message("user", Str(user_input)))
  /\ agent' = "request"
  /\ turn' = <<>>
  /\ pc' = "build"
  /\ payload' = EmptyObject
  /\ result' = NoResult
  /\ outcome' = NoOutcome
  /\ sent' = <<>>
  /\ emitted' = <<>>
  /\ status' = 200
  /\ steps' = <<>>
  /\ UNCHANGED <<format, streaming, wire, split, accumulated_body, final_text,
                 anthropic_content, openai_tool_calls, current_anthropic_tool,
                 current_openai_tool, current_tool_args, err_body, current_model_,
                 roundtrip, sessionVars>>

\* one pass of the while loop of run_agentic_loop
Iteration ==
  /\ agent = "request"
  /\ Len(messages_) < MaxConversation
  /\ format' = FormatOf(LLMConfig(current_model_))
  /\ payload' = IF LLMConfig(current_model_).is_anthropic_format
                THEN build_anthropic_payload(current_model_, messages_)
                ELSE build_openai_payload(current_model_, messages_)
  /\ request' = HttpRequest(LLMConfig(current_model_), payload', TRUE)
  /\ \E answer \in Answers(format') :
       /\ steps' = StepsOf(answer)
                     \o (IF send_request(answer, format').ok THEN <<"shutdown">> ELSE <<>>)
       /\ status' = IF answer.failed = "" THEN answer.status ELSE status
       /\ sent' = IF answer.failed = "" THEN answer.lines ELSE <<>>
       /\ emitted' = IF answer.failed = "" /\ answer.status = 200
                     THEN DecodeLines(FreshLocals, format', answer.lines).emitted
                     ELSE <<>>
       /\ result' = send_request(answer, format')
  /\ outcome' = HandleResponse(result', format')
  /\ messages_' = Pushed(messages_, outcome')
  /\ agent' = AfterIteration(outcome')
  /\ turn' = Append(turn, [kind |-> outcome'.kind, before |-> Len(messages_)])
  /\ pc' = "handled"
  /\ UNCHANGED <<streaming, wire, split, accumulated_body, final_text,
                 anthropic_content, openai_tool_calls, current_anthropic_tool,
                 current_openai_tool, current_tool_args, err_body, current_model_,
                 roundtrip, store, spinner, trailing, indicators, edit>>

NextAgent == UserInput \/ Iteration \/ SwitchModel

SpecAgent == InitAgent /\ [][NextAgent]_vars

-----------------------------------------------------------------------------
(* What the upstream sent, read off the lines of the body *)

Indices(seq) == [i \in 1..Len(seq) |-> i]

\* the frames among the lines, in order
RECURSIVE FramesOf(_)
FramesOf(lines) ==
  IF lines = <<>> THEN <<>>
  ELSE (IF IsFrameLine(Head(lines)) THEN <<Head(lines).frame>> ELSE <<>>) \o FramesOf(Tail(lines))

HasType(j, type) == contains(j, "type") /\ at(j, "type") = S(type)
IsToolStart(j) == HasType(j, "content_block_start") /\ HasType(at(j, "content_block"), "tool_use")
IsStop(j) == HasType(j, "content_block_stop")
IsDelta(j, type) == HasType(j, "content_block_delta") /\ HasType(at(j, "delta"), type)

\* the text fragment an Anthropic frame carries, as a list of none or one
AnthropicTextOf(j) ==
  IF IsDelta(j, "text_delta") THEN <<at(at(j, "delta"), "text").str>> ELSE <<>>
\* the argument fragment an Anthropic frame carries
AnthropicArgsOf(j) ==
  IF IsDelta(j, "input_json_delta") THEN at(at(j, "delta"), "partial_json").str ELSE <<>>

\* the delta object of an OpenAI frame
DeltaOf(j) == at(at(j, "choices").arr[1], "delta")
OpenAITextOf(j) ==
  IF contains(DeltaOf(j), "content") THEN <<at(DeltaOf(j), "content").str>> ELSE <<>>
\* the tool-call deltas an OpenAI frame carries
OpenAIEntriesOf(j) ==
  IF contains(DeltaOf(j), "tool_calls") THEN at(DeltaOf(j), "tool_calls").arr ELSE <<>>
\* the argument fragment a tool-call delta carries
OpenAIArgsOf(tc) ==
  IF contains(tc, "function") /\ contains(at(tc, "function"), "arguments")
  THEN at(at(tc, "function"), "arguments").str ELSE <<>>

RECURSIVE TextsSent(_, _)
\* the text fragments of the frames, in wire order
TextsSent(fmt, frames) ==
  IF frames = <<>> THEN <<>>
  ELSE (IF fmt = "anthropic" THEN AnthropicTextOf(Head(frames)) ELSE OpenAITextOf(Head(frames)))
       \o TextsSent(fmt, Tail(frames))

RECURSIVE EntriesSent(_)
\* all tool-call deltas of the OpenAI frames, in wire order
EntriesSent(frames) ==
  IF frames = <<>> THEN <<>> ELSE OpenAIEntriesOf(Head(frames)) \o EntriesSent(Tail(frames))

\* the argument fragments of frames[from..to], concatenated
AnthropicArgsIn(frames, from, to) ==
  Flatten([i \in 1..(to - from + 1) |-> AnthropicArgsOf(frames[from + i - 1])])

\* the argument fragments of the tool-call deltas E[from..to], concatenated
OpenAIArgsIn(E, from, to) ==
  Flatten([i \in 1..(to - from + 1) |-> OpenAIArgsOf(E[from + i - 1])])

\* OpenAI: the calls opened, in opening order.  A call is opened by a delta
\* with an id and stays open up to the next such delta.
OpenAICallsSent(frames) ==
  LET E == EntriesSent(frames)
      opens == SelectSeq(Indices(E), LAMBDA i : contains(E[i], "id"))
      last(k) == IF k = Len(opens) THEN Len(E) ELSE opens[k + 1] - 1
  IN  [k \in 1..Len(opens) |->
         [id |-> at(E[opens[k]], "id"), name |-> at(at(E[opens[k]], "function"), "name"),
          args |-> OpenAIArgsIn(E, opens[k], last(k))]]

\* Anthropic: the last tool start or stop before frame i, 0 if there is none
Opener(F, i) ==
  IF \E h \in 1..(i - 1) : IsToolStart(F[h]) \/ IsStop(F[h])
  THEN CHOOSE h \in 1..(i - 1) :
         /\ IsToolStart(F[h]) \/ IsStop(F[h])
         /\ \A g \in (h + 1)..(i - 1) : ~(IsToolStart(F[g]) \/ IsStop(F[g]))
  ELSE 0

\* Anthropic: frame i starts a tool call that a later tool start replaces
Replaced(F, i) ==
  /\ IsToolStart(F[i])
  /\ \E h \in (i + 1)..Len(F) : IsToolStart(F[h]) /\ Opener(F, h) = i

\* Anthropic: frame i is a stop that closes a tool call
Closes(F, i) == IsStop(F[i]) /\ Opener(F, i) # 0 /\ IsToolStart(F[Opener(F, i)])

\* Anthropic: the calls closed by a content_block_stop, in closing order
AnthropicCallsSent(frames) ==
  LET stops == SelectSeq(Indices(frames), LAMBDA i : Closes(frames, i))
      start(k) == Opener(frames, stops[k])
  IN  [k \in 1..Len(stops) |->
         [id |-> at(at(frames[start(k)], "content_block"), "id"),
          name |-> at(at(frames[start(k)], "content_block"), "name"),
          args |-> AnthropicArgsIn(frames, start(k) + 1, stops[k] - 1)]]

\* the tool calls of a stream that has ended
CallsSent(fmt, frames) ==
  IF fmt = "anthropic" THEN AnthropicCallsSent(frames) ELSE OpenAICallsSent(frames)

IsTextBlock(b) == is_object(b) /\ HasType(b, "text")
IsToolUse(b) == is_object(b) /\ HasType(b, "tool_use")

\* the tool_use blocks among the blocks the loop of run_agentic_loop went over
ToolUses(blocks) == SelectSeq(blocks, IsToolUse)

Returned == pc \in {"returned", "handled"}

-----------------------------------------------------------------------------
(* C1: chunk-boundary invariance *)

\* the bytes of the body read so far
Received == SubSeq(BodyOf(sent), 1, Len(BodyOf(sent)) - Len(wire))

NewlinesIn(text) == Cardinality({i \in 1..Len(text) : text[i] = NL})

\* the bytes after the last newline
PartialLine(text) ==
  IF NewlinesIn(text) = 0 THEN text
  ELSE Rest(text, CHOOSE i \in 1..Len(text) :
                    text[i] = NL /\ \A k \in (i + 1)..Len(text) : text[k] # NL)

\* the locals of the read loop are those of d, but for the line buffer
SameLocals(d) ==
  /\ final_text = d.final_text
  /\ anthropic_content = d.anthropic_content
  /\ openai_tool_calls = d.openai_tool_calls
  /\ current_anthropic_tool = d.current_anthropic_tool
  /\ current_openai_tool = d.current_openai_tool
  /\ current_tool_args = d.current_tool_args

\* the on_chunk calls, the locals and the returned value are those of d
DecodedAs(d) ==
  /\ emitted = d.emitted
  /\ pc = "reading" => SameLocals(d)
  /\ Returned => result = ReturnedFrom(d, format)

\* C1: however the reads split the body, the on_chunk calls, the decoder's
\* locals and the returned value are those of decoding each complete line
\* received once, in order; the bytes after the last newline wait in
\* accumulated_body.
C1_ChunkBoundaryInvariance ==
  /\ DecodedAs(DecodeLines(FreshLocals, format, SubSeq(sent, 1, NewlinesIn(Received))))
  /\ pc = "reading" => accumulated_body = PartialLine(Received)

\* a body of two frames, one of them cut by a read, has been decoded
C1_Witness ==
  /\ pc = "returned" /\ result.ok /\ split
  /\ Len(sent) = 2 /\ \A i \in 1..2 : IsFrameLine(sent[i])
  /\ Len(emitted) = 1

-----------------------------------------------------------------------------
(* C2: tool arguments are rebuilt from their fragments *)

\* a response was returned and its content blocks could be read
Decoded ==
  /\ Returned /\ result.ok
  /\ format = "openai" => normalize_openai_response(result.raw_json).thrown = <<>>

\* the content blocks run_agentic_loop takes from a returned response
HandedBlocks ==
  IF format = "anthropic" THEN at(result.raw_json, "content").arr
  ELSE at(normalize_openai_response(result.raw_json).val, "content").arr

\* the loop of run_agentic_loop went over the blocks
Handed == pc = "handled" /\ outcome.kind = "appended"

\* C2: in both formats the input of each ToolUse block is the value parsed
\* from the concatenation, in arrival order, of the fragments sent for that
\* call, whenever fragments were sent for it.
C2_ArgumentReconstruction ==
  Decoded =>
    LET uses == ToolUses(HandedBlocks)
        calls == CallsSent(format, FramesOf(sent))
    IN  /\ Len(uses) = Len(calls)
        /\ \A k \in 1..Len(calls) :
             calls[k].args # <<>> =>
               /\ ParseText(calls[k].args).ok
               /\ at(uses[k], "input") = ParseText(calls[k].args).val

\* {"c":"l then s"} arrived as two fragments and the block's input is {"c":"ls"}
C2_Witness ==
  /\ Handed
  /\ \E i \in 1..Len(sent) : \E k \in (i + 1)..Len(sent) :
       /\ sent[i] \in {FrameLine(AJsonDelta(FragA)), FrameLine(OToolCalls(<<OArgs(FragA)>>))}
       /\ sent[k] \in {FrameLine(AJsonDelta(FragB)), FrameLine(OToolCalls(<<OArgs(FragB)>>))}
  /\ \E b \in 1..Len(outcome.content_blocks) :
       /\ IsToolUse(outcome.content_blocks[b])
       /\ at(outcome.content_blocks[b], "input") =
            Obj(<<[key |-> <<"c">>, val |-> Str(<<"l", "s">>)]>>)

-----------------------------------------------------------------------------
(* C3: canonical block order *)

\* C3 as claimed: the blocks hold one Text block, first, iff text was
\* accumulated, and after it only ToolUse blocks, one per finalized call in
\* finalization order.
C3_CanonicalBlockOrder ==
  Decoded =>
    LET blocks == HandedBlocks
        calls == CallsSent(format, FramesOf(sent))
        n == IF final_text # <<>> THEN 1 ELSE 0
    IN  /\ Len(blocks) = n + Len(calls)
        /\ n = 1 => IsTextBlock(blocks[1]) /\ at(blocks[1], "text") = Str(final_text)
        /\ \A k \in 1..Len(calls) :
             /\ n + k <= Len(blocks)
             /\ IsToolUse(blocks[n + k])
             /\ at(blocks[n + k], "id") = calls[k].id

-----------------------------------------------------------------------------
(* C4: a malformed line is skipped *)

\* the lines without those whose payload is not valid JSON
WellFormed(lines) == SelectSeq(lines, LAMBDA l : l # MalformedLine)

\* C4: the on_chunk calls, the locals and the returned value are those of
\* the same stream with its malformed lines removed.
C4_MalformedLineSkipped == DecodedAs(DecodeLines(FreshLocals, format, WellFormed(sent)))

\* a malformed line between two frames, and the stream was decoded to its end
C4_Witness ==
  /\ pc = "returned" /\ result.ok
  /\ Len(sent) = 3
  /\ IsFrameLine(sent[1]) /\ sent[2] = MalformedLine /\ IsFrameLine(sent[3])
  /\ emitted # <<>>

-----------------------------------------------------------------------------
(* C5: no frame content fails the request *)

\* C5 as claimed: with a success status and a connection that stays up, the
\* streaming request returns a response whatever the frames hold.
C5_NoFrameAborts == (Returned /\ streaming) => result.ok

-----------------------------------------------------------------------------
(* C6: text emission *)

\* C6: after every prefix of the stream, on_chunk has been called with
\* exactly the text fragments sent, in wire order, and with nothing else, and
\* their concatenation is the accumulated text.
C6_TextEmission ==
  /\ emitted = TextsSent(format, FramesOf(sent))
  /\ final_text = Flatten(emitted)

\* two text fragments around an argument fragment
C6_Witness ==
  /\ emitted = <<<<"a">>, <<"b">>>>
  /\ current_tool_args # <<>>
  /\ pc = "reading"

-----------------------------------------------------------------------------
(* C7: one open accumulator *)

RECURSIVE IdsOf(_)
\* the ids of a list of tool blocks or tool calls
IdsOf(tools) == IF tools = <<>> THEN <<>> ELSE <<at(Head(tools), "id")>> \o IdsOf(Tail(tools))

\* the ids of the completed calls followed by the id of the open one
Accounted ==
  IF format = "anthropic"
  THEN IdsOf(anthropic_content)
       \o (IF empty(current_anthropic_tool) THEN <<>> ELSE IdsOf(<<current_anthropic_tool>>))
  ELSE IdsOf(openai_tool_calls)
       \o (IF empty(current_openai_tool) THEN <<>> ELSE IdsOf(<<current_openai_tool>>))

\* the ids of the tool calls started, in wire order
StartedIds(fmt, frames) ==
  IF fmt = "anthropic"
  THEN IdsOf([i \in 1..Len(SelectSeq(frames, IsToolStart)) |->
                at(SelectSeq(frames, IsToolStart)[i], "content_block")])
  ELSE IdsOf(SelectSeq(EntriesSent(frames), LAMBDA tc : contains(tc, "id")))

\* Anthropic: the ids of the tool starts that no later start replaced
KeptIds(frames) ==
  IdsOf([i \in 1..Len(SelectSeq(Indices(frames),
                                LAMBDA h : IsToolStart(frames[h]) /\ ~Replaced(frames, h))) |->
           at(frames[SelectSeq(Indices(frames),
                               LAMBDA h : IsToolStart(frames[h]) /\ ~Replaced(frames, h))[i]],
              "content_block")])

AtMostOneOpen == empty(current_anthropic_tool) \/ empty(current_openai_tool)

\* C7 as claimed: every tool call started is completed or open, in both
\* formats.
C7_FlushOnStart ==
  /\ AtMostOneOpen
  /\ pc = "reading" => Accounted = StartedIds(format, FramesOf(sent))

\* C7 as amended: in the OpenAI format every call started is completed or
\* open; in the Anthropic format that holds of the starts no later start
\* replaced, and a replaced call is in neither place.
C7_FlushOnStartOpenAI ==
  /\ AtMostOneOpen
  /\ (pc = "reading" /\ format = "openai") => Accounted = StartedIds(format, FramesOf(sent))
  /\ (pc = "reading" /\ format = "anthropic") => Accounted = KeptIds(FramesOf(sent))

\* OpenAI: t2 was started while t1 was open; t1 is completed and t2 is open
C7_Witness ==
  /\ pc = "reading" /\ format = "openai"
  /\ IdsOf(openai_tool_calls) = <<S("t1")>>
  /\ ~empty(current_openai_tool) /\ at(current_openai_tool, "id") = S("t2")
  /\ current_tool_args # <<>>

-----------------------------------------------------------------------------
(* C8: OpenAI tool-call accounting *)

\* the tool_calls of the returned message; none if the key is absent
ReturnedToolCalls ==
  LET msg == at(at(result.raw_json, "choices").arr[1], "message")
  IN  IF contains(msg, "tool_calls") THEN at(msg, "tool_calls").arr ELSE <<>>

\* C8: when an OpenAI stream completes, the returned tool_calls are the
\* calls opened, once each, in opening order, each with its id, its name and
\* the concatenation of the fragments received while it was open.
C8_OpenAIAccounting ==
  (Returned /\ result.ok /\ format = "openai") =>
    LET calls == OpenAICallsSent(FramesOf(sent))
    IN  ReturnedToolCalls =
          [k \in 1..Len(calls) |->
             Obj(<<Member("id", calls[k].id), Member("type", S("function")),
                   Member("function", Obj(<<Member("name", calls[k].name),
                                            Member("arguments", Str(calls[k].args))>>))>>)]

\* two calls returned; the second was still open when the stream ended
C8_Witness ==
  /\ pc = "returned" /\ result.ok /\ format = "openai"
  /\ Len(ReturnedToolCalls) = 2
  /\ ~empty(current_openai_tool)
  /\ current_tool_args = FragA \o FragB

-----------------------------------------------------------------------------
(* C9: an empty argument buffer *)

\* C9 as claimed: when no text was sent and every call sent had no argument
\* fragment, the blocks are dispatched and each ToolUse has the input {}.
C9_EmptyArguments ==
  LET calls == CallsSent(format, FramesOf(sent))
  IN  (/\ pc = "handled" /\ result.ok /\ emitted = <<>>
       /\ calls # <<>> /\ \A k \in 1..Len(calls) : calls[k].args = <<>>) =>
        /\ outcome.kind = "appended"
        /\ Len(ToolUses(outcome.content_blocks)) = Len(calls)
        /\ \A k \in 1..Len(calls) :
             at(ToolUses(outcome.content_blocks)[k], "input") = EmptyObject

-----------------------------------------------------------------------------
(* C10: the result of a buffered request *)

IsSuffix(text, tail) ==
  Len(tail) <= Len(text) /\ SubSeq(text, Len(text) - Len(tail) + 1, Len(text)) = tail

ParseError(res, body) ==
  ~res.ok /\ res.error[1] = "JSON Parse Error: " /\ IsSuffix(res.error, body)
ShapeError(res, body) ==
  /\ ~res.ok
  /\ res.error[1] = "API Response is not a JSON object nor an object array.\nResponse body:\n"
  /\ IsSuffix(res.error, body)

\* the body a buffered request read
BodyRead == sent[1].raw

\* C10 as claimed: only a one-element array is unwrapped.
C10_BufferedShape ==
  (pc = "returned" /\ ~streaming) =>
    LET p == ParseText(BodyRead)
    IN  IF ~p.ok THEN ParseError(result, BodyRead)
        ELSE IF is_object(p.val) THEN result = Response(p.val)
        ELSE IF is_array(p.val) /\ Len(p.val.arr) = 1 /\ is_object(p.val.arr[1])
        THEN result = Response(p.val.arr[1])
        ELSE ShapeError(result, BodyRead)

\* C10 as amended: an array of any length whose first element is an object
\* is unwrapped to that element.
C10_BufferedShapeFirstElement ==
  (pc = "returned" /\ ~streaming) =>
    LET p == ParseText(BodyRead)
    IN  IF ~p.ok THEN ParseError(result, BodyRead)
        ELSE IF is_object(p.val) THEN result = Response(p.val)
        ELSE IF is_array(p.val) /\ p.val.arr # <<>> /\ is_object(p.val.arr[1])
        THEN result = Response(p.val.arr[1])
        ELSE ShapeError(result, BodyRead)

\* the body [{},1] was returned as its first element
C10_Witness ==
  /\ pc = "returned" /\ ~streaming
  /\ BodyRead = <<"[", "{}", ",", "1", "]">>
  /\ result = Response(EmptyObject)

-----------------------------------------------------------------------------
(* C11: the status check of a streaming request *)

\* the network operations completed, as a set
Done_(op) == \E i \in 1..Len(steps) : steps[i] = op

Success(code) == code \in 200..299

\* C11: a streaming request whose response status is not a success status
\* returns the failure "HTTP Error <code>: <body>", where <body> is the body
\* text read by the drain loop (all of it unless a read failed); no frame
\* is decoded and on_chunk is not called.
C11_StatusCheck ==
  (pc = "returned" /\ streaming /\ Done_("header") /\ ~Success(status)) =>
    /\ result = StatusError(status, Received)
    /\ ~Done_("break") => Received = BodyOf(sent)
    /\ emitted = <<>>
    /\ SameLocals(FreshLocals)

\* status 404 with a body that is a text frame: the body is in the failure
C11_Witness ==
  /\ pc = "returned" /\ streaming /\ status = 404
  /\ sent \in {<<FrameLine(ATextDelta(<<"a">>))>>, <<FrameLine(OContent(<<"a">>))>>}
  /\ result = StatusError(404, BodyOf(sent))

-----------------------------------------------------------------------------
(* C12: the kinds of failure *)

\* why the request failed, from the path it took
Cause ==
  IF steps # <<>> /\ steps[Len(steps)] = "error" THEN "transport"
  ELSE IF streaming THEN (IF status # 200 THEN "status" ELSE "decode")
  ELSE IF ~ParseText(BodyRead).ok THEN "parse"
  ELSE "shape"

\* the kind a caller reads off the beginning of the failure text
KindOf(error) ==
  CASE error[1] = "HTTP Error: " -> "transport"
    [] error[1] = "HTTP Error " /\ Len(error) >= 3 /\ error[3] = ": " -> "status"
    [] error[1] = "JSON Parse Error: " -> "parse"
    [] error[1] = "API Response is not a JSON object nor an object array.\nResponse body:\n"
         -> "shape"
    [] OTHER -> "unknown"

-----------------------------------------------------------------------------
(* The OpenAI translation of a conversation *)

Role(m) == at(m, "role").str
Content(m) == at(m, "content")

\* the blocks of one type, in block order
BlocksOfType(blocks, type) == SelectSeq(blocks, LAMBDA b : at(b, "type") = S(type))

IsUserText(m) == Role(m) = <<"user">> /\ is_string(Content(m))
IsToolResults(m) == Role(m) = <<"user">> /\ is_array(Content(m))
IsAssistant(m) ==
  Role(m) = <<"assistant">> /\ (is_array(Content(m)) \/ is_string(Content(m)))
IsAssistantBlocks(m) == Role(m) = <<"assistant">> /\ is_array(Content(m))

\* how many messages the translation of m is said to have
CountOf(m) ==
  IF IsUserText(m) \/ IsAssistant(m) THEN 1
  ELSE IF IsToolResults(m) THEN Len(BlocksOfType(Content(m).arr, "tool_result"))
  ELSE 0

RECURSIVE CountUpTo(_)
\* how many messages the translations of the first n messages are said to have
CountUpTo(n) == IF n = 0 THEN 0 ELSE CountUpTo(n - 1) + CountOf(messages_[n])

\* the translated messages, and where the translation of messages_[i] starts
Translated == at(payload, "messages").arr
Offset(i) == 1 + CountUpTo(i - 1)

Built == pc \in {"built", "normalized"} /\ format = "openai"

\* the translation of messages_[i] is what the claim says it is
TranslatedAsSaid(i) ==
  LET m == messages_[i]
      o == Offset(i)
  IN  /\ IsUserText(m) => Translated[o + 1] = Message("user", Content(m))
      /\ IsToolResults(m) =>
           \A k \in 1..CountOf(m) :
             Translated[o + k] =
               Obj(<<Member("role", S("tool")),
                     Member("tool_call_id",
                            at(BlocksOfType(Content(m).arr, "tool_result")[k], "tool_use_id")),
                     Member("content",
                            at(BlocksOfType(Content(m).arr, "tool_result")[k], "content"))>>)
      /\ IsAssistant(m) => at(Translated[o + 1], "role") = S("assistant")

\* the translated list is the system message and then the translations, in
\* the order of the messages
InOrder ==
  /\ Len(Translated) = 1 + CountUpTo(Len(messages_))
  /\ Translated[1] = Message("system", Str(<<"Concise coding assistant.">>))
  /\ \A i \in 1..Len(messages_) : TranslatedAsSaid(i)

\* C19, as stated: the translated list is one system message carrying the
\* system prompt followed by the translations of the messages in their order
\* (user text to one user message, user array to one tool message per
\* ToolResult block, assistant to one assistant message), and no message and
\* no block of a user array is dropped.
C19_TranslationLosesNothing ==
  Built =>
    /\ InOrder
    /\ \A i \in 1..Len(messages_) :
         /\ CountOf(messages_[i]) >= 1
         /\ IsToolResults(messages_[i]) =>
              CountOf(messages_[i]) = Len(Content(messages_[i]).arr)

\* C19, amended: the translated list is one system message carrying the
\* system prompt followed by the translations of the messages in their order;
\* a message whose role is neither user nor assistant, and a block of a user
\* array that is not a ToolResult, has no translation.
C19_TranslationInOrder == Built => InOrder

C19_Witness ==
  /\ Built
  /\ messages_ = << Message("assistant", Arr(<<TextBlock(<<"a">>),
                                               ToolUse("t1", "read", EmptyObject),
                                               ToolUse("t2", "bash", InputNested)>>)),
                    Message("user", Arr(<<ToolResult("t1", <<"out">>),
                                          ToolResult("t2", <<"x">>)>>)) >>
  /\ Len(Translated) = 4
  /\ at(Translated[3], "tool_call_id") = S("t1")
  /\ at(Translated[4], "tool_call_id") = S("t2")

-----------------------------------------------------------------------------
(* The OpenAI translation of an assistant message *)

RECURSIVE ConcatTexts(_)
\* the texts of the Text blocks, one after the other in block order
ConcatTexts(blocks) ==
  IF blocks = <<>> THEN <<>>
  ELSE (IF at(Head(blocks), "type") = S("text") THEN at(Head(blocks), "text").str ELSE <<>>)
       \o ConcatTexts(Tail(blocks))

\* tc is the tool call of the ToolUse block b
IsToolCallOf(tc, b) ==
  /\ at(tc, "id") = at(b, "id")
  /\ at(tc, "type") = S("function")
  /\ at(at(tc, "function"), "name") = at(b, "name")
  /\ at(at(tc, "function"), "arguments") = Str(Serialize(at(b, "input")))
  /\ ParseText(at(at(tc, "function"), "arguments").str) = [ok |-> TRUE, val |-> at(b, "input")]

\* tm is the translation of an assistant message with these blocks
IsTranslationOf(tm, blocks) ==
  LET uses == BlocksOfType(blocks, "tool_use")
  IN  /\ contains(tm, "content") <=> ConcatTexts(blocks) # <<>>
      /\ contains(tm, "content") => at(tm, "content") = Str(ConcatTexts(blocks))
      /\ contains(tm, "tool_calls") <=> uses # <<>>
      /\ contains(tm, "tool_calls") =>
           /\ is_array(at(tm, "tool_calls"))
           /\ Len(at(tm, "tool_calls").arr) = Len(uses)
           /\ \A k \in 1..Len(uses) : IsToolCallOf(at(tm, "tool_calls").arr[k], uses[k])

\* C20: the translation of an assistant message with array content has
\* `content` equal to the concatenation of its Text blocks in block order,
\* present iff that is non-empty, and `tool_calls` with one entry per ToolUse
\* block in block order (the block's id, type "function", its name, and its
\* input serialized), present iff there is a ToolUse block.
C20_AssistantTranslation ==
  Built =>
    \A i \in 1..Len(messages_) :
      IsAssistantBlocks(messages_[i]) =>
        IsTranslationOf(Translated[Offset(i) + 1], Content(messages_[i]).arr)

C20_Witness ==
  /\ Built
  /\ messages_ = << Message("assistant", Arr(<<TextBlock(<<"a">>), TextBlock(<<"b">>),
                                               ToolUse("t1", "bash", EmptyObject)>>)),
                    Message("assistant", Arr(<<TextBlock(<<"a">>),
                                               ToolUse("t1", "bash", InputQuoted)>>)) >>
  /\ at(Translated[2], "content") = Str(<<"a", "b">>)
  /\ at(at(at(Translated[3], "tool_calls").arr[1], "function"), "arguments")
       = Str(<<"{", QUOTE, "cmd", QUOTE, ":", QUOTE, "l", ESCAPED_QUOTE, "s",
               ESCAPED_BACKSLASH, QUOTE, "}">>)

-----------------------------------------------------------------------------
(* Translating an assistant message and normalizing it back *)

\* an assistant message with Text and ToolUse blocks, and nothing else
HasTextAndToolUse(m) ==
  /\ IsAssistantBlocks(m)
  /\ BlocksOfType(Content(m).arr, "text") # <<>>
  /\ BlocksOfType(Content(m).arr, "tool_use") # <<>>
  /\ Len(BlocksOfType(Content(m).arr, "text")) + Len(BlocksOfType(Content(m).arr, "tool_use"))
       = Len(Content(m).arr)

\* one Text block with text in it, then only ToolUse blocks
TextFirst(blocks) ==
  /\ at(blocks[1], "type") = S("text")
  /\ at(blocks[1], "text") # Str(<<>>)
  /\ Len(BlocksOfType(blocks, "text")) = 1

ObjectInputs(blocks) ==
  \A k \in 1..Len(blocks) :
    at(blocks[k], "type") = S("tool_use") => is_object(at(blocks[k], "input"))

\* what normalize_openai_response made of the translation of messages_[i]
Back(i) == roundtrip[Offset(i) + 1]

\* the Text blocks merged into one block placed first, then the ToolUse blocks
Merged(blocks) ==
  (IF ConcatTexts(blocks) # <<>> THEN <<TextBlock(ConcatTexts(blocks))>> ELSE <<>>)
  \o BlocksOfType(blocks, "tool_use")

\* C18, as stated: translating an assistant message with Text and ToolUse
\* blocks and normalizing a response that carries the translation gives back
\* exactly the blocks of the message.
C18_RoundTrip ==
  pc = "normalized" =>
    \A i \in 1..Len(messages_) :
      HasTextAndToolUse(messages_[i]) =>
        Back(i) = Value(Obj(<<Member("content", Content(messages_[i]))>>))

\* C18, amended: the blocks come back exactly when the message is one Text
\* block with text in it followed by ToolUse blocks whose inputs are objects;
\* in general, with object inputs, what comes back is the Text blocks merged
\* into one block placed first (none if they hold no text) and then the
\* ToolUse blocks in order; an input that is not an object makes
\* normalize_openai_response throw.
C18_RoundTripTextFirst ==
  pc = "normalized" =>
    \A i \in 1..Len(messages_) :
      HasTextAndToolUse(messages_[i]) =>
        IF ~ObjectInputs(Content(messages_[i]).arr) THEN Back(i).thrown # <<>>
        ELSE /\ Back(i) = Value(Obj(<<Member("content", Arr(Merged(Content(messages_[i]).arr)))>>))
             /\ TextFirst(Content(messages_[i]).arr) =>
                  Back(i) = Value(Obj(<<Member("content", Content(messages_[i]))>>))

C18_Witness ==
  /\ pc = "normalized"
  /\ messages_ = << Message("assistant", Arr(<<TextBlock(<<"a">>),
                                               ToolUse("t1", "bash", InputQuoted)>>)) >>
  /\ Back(1) = Value(Obj(<<Member("content", Content(messages_[1]))>>))


-----------------------------------------------------------------------------
(* The ids of the ToolUse blocks of a response *)

Distinct(seq) == \A i, j \in 1..Len(seq) : seq[i] = seq[j] => i = j

\* the ids of the calls the upstream sent to completion, in order
CompletedIds ==
  [k \in 1..Len(CallsSent(format, FramesOf(sent))) |-> CallsSent(format, FramesOf(sent))[k].id]

\* C17, as stated: the ids of the ToolUse blocks of a decoded response are
\* pairwise distinct, whatever the upstream sent.
C17_DistinctIds == Decoded => Distinct(IdsOf(ToolUses(HandedBlocks)))

\* C17, amended: the ids of the ToolUse blocks of a decoded response are the
\* ids of the calls the upstream sent to completion, so they are pairwise
\* distinct exactly when the upstream's are.
C17_IdsAsSent ==
  Decoded =>
    /\ IdsOf(ToolUses(HandedBlocks)) = CompletedIds
    /\ Distinct(IdsOf(ToolUses(HandedBlocks))) <=> Distinct(CompletedIds)

\* two calls with different ids came back, each with its arguments
C17_Witness ==
  /\ Decoded /\ pc = "returned"
  /\ IdsOf(ToolUses(HandedBlocks)) = <<S("t1"), S("t2")>>
  /\ CompletedIds = <<S("t1"), S("t2")>>


-----------------------------------------------------------------------------
(* The turns of the agent *)

\* C13, as stated: whatever the upstream answers, the iteration ends by
\* appending messages or by printing a diagnostic, and the agent goes on to
\* the next request or the next input; no exception leaves the turn.
C13_NoUncaughtFault ==
  pc = "handled" => (outcome.kind # "crash" /\ agent \in {"prompt", "request"})

\* how often a network operation was begun in the last send_request
TimesBegun(op) == Cardinality({i \in 1..Len(steps) : steps[i] = op})

\* C14: a request that fails, or whose response has an `error` member, is
\* the last request of its turn and the agent is back at the prompt; and one
\* send_request begins each of resolve, connect, handshake and write at most
\* once, in that order.
C14_NoRetry ==
  /\ \A k \in 1..Len(turn) :
       turn[k].kind \in {"error", "api_error"} => (k = Len(turn) /\ agent = "prompt")
  /\ \A op \in {"resolve", "connect", "handshake", "write"} : TimesBegun(op) <= 1
  /\ \A i \in 1..Len(steps) :
       steps[i] \in {"resolve", "connect", "handshake", "write"} => steps[i] = NetworkOps[i]

\* the second request of a turn failed at the handshake
C14_Witness ==
  /\ pc = "handled" /\ agent = "prompt"
  /\ Len(turn) = 2 /\ turn[1].kind = "appended" /\ turn[2].kind = "error"
  /\ steps = <<"resolve", "connect", "handshake", "error">>
  /\ result = Caught(TransportError("handshake"))

\* the tool calls of the response send_request returned
ResponseToolUses ==
  IF format = "anthropic" THEN ToolUses(at(result.raw_json, "content").arr)
  ELSE ReturnedToolCalls

\* C15, as stated: after a response was decoded, another request follows iff
\* the response had a ToolUse block; with none, the turn ends and exactly one
\* assistant message was appended for the response.
C15_Continuation ==
  (pc = "handled" /\ result.ok) =>
    /\ agent = "request" <=> ResponseToolUses # <<>>
    /\ ResponseToolUses = <<>> =>
         /\ agent = "prompt"
         /\ Len(messages_) = turn[Len(turn)].before + 1
         /\ Role(messages_[Len(messages_)]) = <<"assistant">>

\* the ids of the ToolUse blocks of an assistant message
UseIds(m) ==
  IF IsAssistantBlocks(m) THEN IdsOf(ToolUses(Content(m).arr)) ELSE <<>>

\* the tool_use_ids of the ToolResult blocks of a user message
ResultIds(m) ==
  IF IsToolResults(m)
  THEN [k \in 1..Len(Content(m).arr) |-> at(Content(m).arr[k], "tool_use_id")]
  ELSE <<>>

\* C16: every ToolResult block names the id of a ToolUse block of an earlier
\* message; an assistant message with ToolUse blocks is followed at once by a
\* user message with one ToolResult per ToolUse, in the same order and with
\* the same ids, and a user message of ToolResults follows such a message.
C16_Pairing ==
  /\ \A i \in 1..Len(messages_) :
       UseIds(messages_[i]) # <<>> =>
         /\ i < Len(messages_)
         /\ IsToolResults(messages_[i + 1])
         /\ \A k \in 1..Len(Content(messages_[i + 1]).arr) :
              at(Content(messages_[i + 1]).arr[k], "type") = S("tool_result")
         /\ ResultIds(messages_[i + 1]) = UseIds(messages_[i])
  /\ \A i \in 1..Len(messages_) :
       IsToolResults(messages_[i]) =>
         /\ i > 1
         /\ \A k \in 1..Len(ResultIds(messages_[i])) :
              \E j \in 1..(i - 1) : \E h \in 1..Len(UseIds(messages_[j])) :
                UseIds(messages_[j])[h] = ResultIds(messages_[i])[k]

\* a response with two tool calls was answered with their two results
C16_Witness ==
  /\ Len(messages_) >= 3
  /\ UseIds(messages_[2]) = <<S("t1"), S("t2")>>
  /\ ResultIds(messages_[3]) = <<S("t1"), S("t2")>>


-----------------------------------------------------------------------------
(* The OpenAI translation of the tool schema *)

\* the schema entry a translated entry was made from
Recovered(tool) ==
  Obj(<<Member("name", at(at(tool, "function"), "name")),
        Member("description", at(at(tool, "function"), "description")),
        Member("input_schema", at(at(tool, "function"), "parameters"))>>)

\* the members of an object, in order
Keys(o) == [i \in 1..Len(o.obj) |-> o.obj[i].key]

\* C21: the tools of an OpenAI payload are one entry per entry of the tool
\* schema, in the same order, each {type: "function", function: {name,
\* description, parameters}} with name and description copied and parameters
\* equal to input_schema; the schema is recovered from them.
C21_ToolTranslation ==
  Built =>
    LET tools == at(payload, "tools").arr
    IN  /\ Len(tools) = Len(get_tools_schema)
        /\ \A i \in 1..Len(tools) :
             /\ Keys(tools[i]) = <<<<"type">>, <<"function">>>>
             /\ at(tools[i], "type") = S("function")
             /\ Keys(at(tools[i], "function"))
                  = <<<<"name">>, <<"description">>, <<"parameters">>>>
             /\ at(at(tools[i], "function"), "name") = at(get_tools_schema[i], "name")
             /\ at(at(tools[i], "function"), "description")
                  = at(get_tools_schema[i], "description")
             /\ at(at(tools[i], "function"), "parameters")
                  = at(get_tools_schema[i], "input_schema")
        /\ [i \in 1..Len(tools) |-> Recovered(tools[i])] = get_tools_schema

C21_Witness ==
  /\ Built
  /\ Len(at(payload, "tools").arr) = 6
  /\ at(at(at(payload, "tools").arr[4], "function"), "name") = S("glob")
  /\ at(at(at(at(payload, "tools").arr[2], "function"), "parameters"), "required")
       = Arr(<<S("path"), S("content")>>)

-----------------------------------------------------------------------------
(* C28: lines the decoder passes over *)

\* the bytes of the body the reads have delivered
Delivered ==
  SubSeq(BodyOf(sent) \o trailing, 1, Len(BodyOf(sent) \o trailing) - Len(wire))

\* the lines among these that the decoder does not pass over
Effective(lines) == SelectSeq(lines, LAMBDA l : l \notin PassedOver(format))

\* C28: a line that does not start with "data: ", the line data: [DONE] and,
\* for Anthropic, an event of a type other than the three handled leave the
\* text, the blocks, the calls, the open tool and its arguments as they were
\* and call on_chunk not at all: decoding goes as if the line were not in
\* the body, the frames after [DONE] included.
C28_PassedOverLines ==
  /\ DecodedAs(DecodeLines(FreshLocals, format,
                           Effective(SubSeq(sent, 1, NewlinesIn(Delivered)))))
  /\ pc = "reading" =>
       \A l \in PassedOver(format) :
         ProcessLine([Locals EXCEPT !.accumulated_body = <<>>], format, LineText(l))
           = [Locals EXCEPT !.accumulated_body = <<>>]

\* a text frame that came after data: [DONE] was decoded
C28_Witness ==
  /\ pc = "returned" /\ result.ok
  /\ Len(sent) = 2
  /\ sent[1] = RawLine(DataPrefix \o Done)
  /\ IsFrameLine(sent[2])
  /\ emitted = <<<<"a">>>>

-----------------------------------------------------------------------------
(* C30: the bytes after the last newline *)

\* C30: the bytes after the last newline of the body are never decoded: they
\* wait in accumulated_body, and what is returned, and what on_chunk was
\* called with, are what the newline-terminated lines alone give.
C30_UnterminatedTail ==
  /\ (pc = "reading" /\ Len(wire) <= Len(trailing)) =>
       accumulated_body = SubSeq(trailing, 1, Len(trailing) - Len(wire))
  /\ Returned =>
       /\ result = ReturnedFrom(DecodeLines(FreshLocals, format, sent), format)
       /\ emitted = DecodeLines(FreshLocals, format, sent).emitted

\* the body ended in a whole text frame without a newline, and the text of
\* that frame is in neither the response nor the on_chunk calls
C30_Witness ==
  /\ pc = "returned" /\ result.ok
  /\ Len(sent) = 1 /\ IsFrameLine(sent[1])
  /\ trailing = DataPrefix \o FrameText(IF format = "anthropic" THEN ATextDelta(<<"b">>)
                                                               ELSE OContent(<<"b">>))
  /\ accumulated_body = trailing
  /\ emitted = <<<<"a">>>>

-----------------------------------------------------------------------------
(* C29: Anthropic tool blocks are emitted on content_block_stop *)

\* the content_block_stop frames of the body that found a tool block open
StopsWhileOpen ==
  SelectSeq(Indices(FramesOf(sent)), LAMBDA i : Closes(FramesOf(sent), i))

\* C29: in the Anthropic format the completed blocks are one per
\* content_block_stop decoded while a tool block was open; the response has
\* these and no other tool_use block, so a block still open when the stream
\* ends is not in it; and a content_block_stop that finds no block open
\* changes nothing.
C29_EmittedOnStop ==
  format = "anthropic" =>
    /\ pc = "reading" => Len(anthropic_content) = Len(StopsWhileOpen)
    /\ (Returned /\ result.ok) =>
         /\ ToolUses(at(result.raw_json, "content").arr) = anthropic_content
         /\ Len(anthropic_content) = Len(StopsWhileOpen)
    /\ (pc = "reading" /\ empty(current_anthropic_tool)) =>
         ProcessLine(Locals, format, LineText(FrameLine(AStop))) = Locals

\* the stream ended with t2 open after t1 was closed: the response has t1 only
C29_Witness ==
  /\ format = "anthropic" /\ pc = "returned" /\ result.ok
  /\ ~empty(current_anthropic_tool) /\ at(current_anthropic_tool, "id") = S("t2")
  /\ IdsOf(ToolUses(at(result.raw_json, "content").arr)) = <<S("t1")>>

-----------------------------------------------------------------------------
(* C26: one request, one connection *)

\* C26 as claimed: whenever send_request has returned from a connection whose
\* handshake completed, stream.async_shutdown was begun before it returned.
C26_ShutdownOnEveryPath ==
  (pc = "returned" /\ Done_("handshake")) => Done_("shutdown")

\* the paths on which the connection is shut down: the buffered body was
\* read, or the streamed body was consumed to its end without an exception
C26_ShutdownWhenConsumed ==
  pc = "returned" =>
    (Done_("shutdown") <=>
       \/ ~streaming /\ Done_("read")
       \/ streaming /\ result.ok)

-----------------------------------------------------------------------------
(* C24: the authentication header *)

\* the values of the fields called name in the request written
Field(name) ==
  SelectSeq(request.headers, LAMBDA h : h.name = name)

\* C24: the request carries x-api-key, with the key, and no Authorization
\* exactly when the format is Anthropic and the host is api.anthropic.com;
\* it carries Authorization: Bearer <key> and no x-api-key when the format is
\* Anthropic through OpenRouter or OpenAI; Content-Type is application/json
\* in every case.
C24_AuthHeader ==
  Done_("write") =>
    LET config == LLMConfig(current_model_)
        direct == format = "anthropic" /\ request.host = <<"api", ".anthropic.com">>
    IN  /\ direct <=>
             /\ Field("x-api-key") = <<Header("x-api-key", config.api_key)>>
             /\ Field("Authorization") = <<>>
        /\ ~direct <=>
             /\ Field("Authorization")
                  = <<Header("Authorization", <<"Bearer ">> \o config.api_key)>>
             /\ Field("x-api-key") = <<>>
        /\ ~direct <=>
             \/ format = "anthropic" /\ request.host = <<"openrouter", ".ai">>
             \/ format = "openai"
        /\ Field("Content-Type") = <<Header("Content-Type", <<"application/json">>)>>

\* a request in the Anthropic format went to OpenRouter with a bearer token
C24_Witness ==
  /\ Done_("write")
  /\ format = "anthropic"
  /\ request.host = <<"openrouter", ".ai">>
  /\ Field("Authorization") = <<Header("Authorization", <<"Bearer ", "openrouter_key">>)>>
  /\ Field("x-api-key") = <<>>

-----------------------------------------------------------------------------
(* C23: the provider format of a request *)

\* the model the last request was built for, and the conversation it was
\* built from
RequestModel == at(payload, "model").str
RequestMessages == SubSeq(messages_, 1, turn[Len(turn)].before)

\* C23: the configuration of a request has exactly one of the two format
\* flags set, and that one format chose the payload builder, had the stream
\* flag put into the body, chose the decoding branch and the final assembly,
\* and decided whether the response was normalized.
C23_OneFormatPerRequest ==
  /\ LLMConfig(current_model_).is_anthropic_format
       # LLMConfig(current_model_).is_openai_format
  /\ pc = "handled" =>
       LET config == LLMConfig(RequestModel)
       IN  /\ config.is_anthropic_format # config.is_openai_format
           /\ format = FormatOf(config)
           /\ payload = IF config.is_anthropic_format
                        THEN build_anthropic_payload(RequestModel, RequestMessages)
                        ELSE build_openai_payload(RequestModel, RequestMessages)
           /\ request.body = SetMember(payload, <<"stream">>, Bool(TRUE))
           /\ request.host = ParseUrl(config.api_url).host
           /\ (status = 200 /\ ~Done_("error")) =>
                /\ result = ReturnedFrom(DecodeLines(FreshLocals, FormatOf(config), sent),
                                         FormatOf(config))
                /\ emitted = DecodeLines(FreshLocals, FormatOf(config), sent).emitted
           /\ result.ok =>
                /\ contains(result.raw_json, "content") <=> config.is_anthropic_format
                /\ contains(result.raw_json, "choices") <=> config.is_openai_format
                /\ outcome = HandleContent(IF config.is_anthropic_format
                                           THEN Value(result.raw_json)
                                           ELSE normalize_openai_response(result.raw_json))

\* a request in the OpenAI format, for a conversation that already holds a
\* tool call and its result, was streamed, decoded, normalized and appended
C23_Witness ==
  /\ pc = "handled" /\ format = "openai" /\ result.ok
  /\ RequestModel = <<"gemini">>
  /\ Len(RequestMessages) = 5
  /\ IsAssistantBlocks(RequestMessages[2])
  /\ at(request.body, "stream") = Bool(TRUE)
  /\ emitted # <<>>
  /\ outcome.kind = "appended"

-----------------------------------------------------------------------------
(* C27: a tool name the block loop does not dispatch *)

\* the tool_use blocks of the last response whose name has no branch
UnknownUses ==
  IF outcome.kind = "appended"
  THEN SelectSeq(ToolUses(outcome.content_blocks),
                 LAMBDA b : ~(Len(at(b, "name").str) = 1 /\ at(b, "name").str[1] \in ToolNames))
  ELSE <<>>

\* C27 as claimed: a response that calls a tool name without a branch ends
\* the turn: no further request is made for it.
C27_UnknownToolEndsTurn ==
  (pc = "handled" /\ UnknownUses # <<>>) => agent = "prompt"

\* what the block loop does instead: the call gets a tool_result whose content
\* is "error: unknown tool <name>", and the loop goes round
C27_UnknownToolResult ==
  (pc = "handled" /\ UnknownUses # <<>>) =>
    /\ agent = "request"
    /\ \A i \in 1..Len(UnknownUses) :
         \E k \in 1..Len(outcome.tool_results) :
           /\ at(outcome.tool_results[k], "tool_use_id") = at(UnknownUses[i], "id")
           /\ at(outcome.tool_results[k], "content")
                = Str(<<"error: unknown tool ">> \o at(UnknownUses[i], "name").str)

-----------------------------------------------------------------------------
(* C25: the progress indicator is cancelled by the first output *)

\* C25 as claimed: once on_chunk has been called the flag is false, and the
\* indicator is not resumed: it stays where it waited.
C25_NotScheduledAgain ==
  emitted # <<>> => (~spinner.active /\ spinner.task = "waiting")

\* what holds instead: the flag is false from the step of the first on_chunk
\* call, and no frame is printed while it is false; the wait on the timer is
\* not cancelled, so the indicator is resumed once more, and ends.
C25_FlagWithFirstOutput == emitted # <<>> => ~spinner.active

C25_NoFrameAfterFirstOutput ==
  [][~spinner.active => spinner'.frames = spinner.frames]_vars

-----------------------------------------------------------------------------
(* C22: building a payload, and saving and loading a conversation *)

\* the payload run_agentic_loop builds for a model and a conversation
PayloadFor(model, messages) ==
  IF get_llm_config(model) = "anthropic" THEN build_anthropic_payload(model, messages)
  ELSE build_openai_payload(model, messages)

\* the model and the messages are those of the last /save, and so is the
\* payload built from them
AsSaved(model, messages) ==
  /\ model = store.saved.model
  /\ messages = store.saved.messages
  /\ PayloadFor(model, messages) = PayloadFor(store.saved.model, store.saved.messages)

\* C22 as claimed: a /load of the file a /save wrote leaves the model and the
\* messages equal to the saved ones, and the payload built from them is the
\* payload built from the saved ones.
C22_SaveThenLoad ==
  [][(Load /\ store.saved.exists) => AsSaved(current_model_', messages_')]_vars

\* what holds: building a payload leaves the model and the conversation as
\* they were, and the payload is a function of the model, the system prompt
\* and the messages; a /load that reports a conversation loaded from a file
\* /save wrote leaves the model and the messages equal to the saved ones.
C22_BuildAndLoadReported ==
  [][/\ BuildPayload =>
          /\ messages_' = messages_ /\ current_model_' = current_model_
          /\ payload' = PayloadFor(current_model_, messages_)
     /\ (Load /\ store.saved.exists
              /\ store'.said = <<"Loaded conversation and restored model from ">>)
          => AsSaved(current_model_', messages_')]_vars

\* a conversation of two messages, one with escaped characters, was saved,
\* cleared, loaded from the file and the payload built from it
C22_LoadedState ==
  /\ store.saved.exists
  /\ store.said = <<"Loaded conversation and restored model from ">>
  /\ Len(messages_) = 2
  /\ messages_[2] = Message("assistant", Arr(<<ToolUse("t1", "bash", InputQuoted)>>))
  /\ messages_ = store.saved.messages
  /\ pc = "built"
  /\ payload = PayloadFor(store.saved.model, store.saved.messages)

-----------------------------------------------------------------------------
(* A failed iteration and messages_ *)

\* a response with an `error` member, as an upstream reports a refusal
ErrorResponse == Response(Obj(<<Member("error", Obj(<<Member("message", S("overloaded"))>>))>>))

\* the iteration ended at one of the two breaks that follow send_request
FailedIteration ==
  Iteration /\ outcome'.kind \in {"error", "api_error"}

-----------------------------------------------------------------------------
(* The buffered branch and the status of the response *)

\* the buffered response was read
BufferedReturned == pc = "returned" /\ ~streaming /\ Done_("read")

\* C32: without a chunk consumer the outcome of send_request is decided by
\* the body of the response alone (an object, an array that starts with an
\* object, another value, no JSON text) whatever the status code is; a
\* response with a status that is not a success and a body that is a JSON
\* object is returned as an LLMResponse.
C32_BufferedIgnoresStatus ==
  BufferedReturned =>
    /\ result = BufferedResult(BodyRead)
    /\ (ParseText(BodyRead).ok /\ is_object(ParseText(BodyRead).val)) =>
         result = Response(ParseText(BodyRead).val)

\* status 404 with the body {} came back as an LLMResponse
C32_Witness ==
  /\ BufferedReturned
  /\ status = 404
  /\ BodyRead = <<"{}">>
  /\ result = Response(EmptyObject)

-----------------------------------------------------------------------------
(* The tools advertised in a payload and the dispatch of run_agentic_loop *)

\* the tool names of the `tools` member of a payload
Advertised(p) ==
  IF ~contains(p, "tools") THEN {}
  ELSE {IF contains(at(p, "tools").arr[i], "function")
        THEN at(at(at(p, "tools").arr[i], "function"), "name").str
        ELSE at(at(p, "tools").arr[i], "name").str : i \in 1..Len(at(p, "tools").arr)}

\* the tool_use blocks of the response whose tool_result is the `unknown
\* tool` error
AnsweredUnknown ==
  IF outcome.kind # "appended" THEN {}
  ELSE {i \in 1..Len(ToolUses(outcome.content_blocks)) :
          \E k \in 1..Len(outcome.tool_results) :
            /\ at(outcome.tool_results[k], "tool_use_id")
                 = at(ToolUses(outcome.content_blocks)[i], "id")
            /\ at(outcome.tool_results[k], "content")
                 = Str(<<"error: unknown tool ">>
                       \o at(ToolUses(outcome.content_blocks)[i], "name").str)}

\* C33: every tool name of the schema sent in the payload has a branch in
\* the dispatch of run_agentic_loop: a ToolUse that names an advertised tool
\* never comes back with the `unknown tool` result.
C33_AdvertisedDispatchable ==
  pc = "handled" =>
    \A i \in AnsweredUnknown :
      at(ToolUses(outcome.content_blocks)[i], "name").str \notin Advertised(payload)

\* every advertised tool but glob has a branch, and the payload of every
\* request advertises the whole schema
C33_AdvertisedButGlob ==
  /\ \A i \in 1..Len(get_tools_schema) :
       at(get_tools_schema[i], "name").str[1] \in ToolNames \cup {"glob"}
  /\ pc = "handled" =>
       /\ Advertised(payload) = {at(get_tools_schema[i], "name").str : i \in 1..Len(get_tools_schema)}
       /\ \A i \in AnsweredUnknown :
            at(ToolUses(outcome.content_blocks)[i], "name").str = <<"glob">>

\* the model called glob, which the payload advertised, and was answered
\* with the error
C33_GlobUnknown ==
  /\ pc = "handled" /\ AnsweredUnknown # {}
  /\ <<"glob">> \in Advertised(payload)
  /\ agent = "request"

-----------------------------------------------------------------------------
(* The progress indicators of successive iterations of run_agentic_loop *)

\* most iterations of run_agentic_loop that are followed
MaxIterations == 2

\* the bodies the upstream streams: text, a tool call and nothing else, a
\* line that is passed over
IndicatorStreams(fmt) ==
  IF fmt = "anthropic"
  THEN {<<FrameLine(ATextDelta(<<"a">>))>>, AnthropicToolCall("t1", "bash"), <<RawLine(<<":">>)>>}
  ELSE {<<FrameLine(OContent(<<"a">>))>>,
        <<FrameLine(OToolCalls(<<OOpenArgs("t2", "read", FragA)>>)), FrameLine(OToolCalls(<<OArgs(FragB)>>))>>,
        <<RawLine(<<":">>)>>}

InitIndicator ==
  /\ format \in {"anthropic", "openai"}
  /\ Connected
  /\ OneRequest
  /\ streaming = TRUE
  /\ sent = <<>>
  /\ wire = <<>>
  /\ split = FALSE
  /\ pc = "build"
  /\ InitLocals
  /\ store = NoStore /\ request = NoRequest /\ spinner = NoSpinner /\ trailing = <<>> /\ indicators = <<>> /\ edit = NoEdit

\* Spawn with a fault: one flag for all iterations, as a member of Agent
SpawnSharedFlag ==
  /\ pc = "build" \/ (pc = "handled" /\ AfterIteration(outcome) # "crashed")
  /\ Len(indicators) + (IF spinner.task = "none" THEN 0 ELSE 1) < MaxIterations
  /\ indicators' = IF spinner.task = "none" THEN indicators
                   ELSE [i \in 1..(Len(indicators) + 1) |->
                           [Append(indicators, spinner)[i] EXCEPT !.active = TRUE]]
  /\ spinner' = [active |-> TRUE, task |-> "spawned", frames |-> 0]
  /\ \E lines \in IndicatorStreams(format) : sent' = lines /\ wire' = BodyOf(lines)
  /\ accumulated_body' = FreshLocals.accumulated_body
  /\ final_text' = FreshLocals.final_text
  /\ anthropic_content' = FreshLocals.anthropic_content
  /\ openai_tool_calls' = FreshLocals.openai_tool_calls
  /\ current_anthropic_tool' = FreshLocals.current_anthropic_tool
  /\ current_openai_tool' = FreshLocals.current_openai_tool
  /\ current_tool_args' = FreshLocals.current_tool_args
  /\ emitted' = <<>>
  /\ result' = NoResult
  /\ outcome' = NoOutcome
  /\ steps' = <<>>
  /\ pc' = "reading"
  /\ UNCHANGED <<format, streaming, split, status, err_body, agentVars, store, request,
                 trailing, edit>>

\* the head of the loop body: a new flag, set; the indicator task is spawned
\* with a copy of the shared pointer, the task of the iteration before keeps
\* its own; the request is sent.  The iteration before ended in a break (the
\* next line read at the prompt starts a turn) or went round.
Spawn ==
  /\ pc = "build" \/ (pc = "handled" /\ AfterIteration(outcome) # "crashed")
  /\ Len(indicators) + (IF spinner.task = "none" THEN 0 ELSE 1) < MaxIterations
  /\ indicators' = IF spinner.task = "none" THEN indicators ELSE Append(indicators, spinner)
  /\ spinner' = [active |-> TRUE, task |-> "spawned", frames |-> 0]
  /\ \E lines \in IndicatorStreams(format) : sent' = lines /\ wire' = BodyOf(lines)
  /\ accumulated_body' = FreshLocals.accumulated_body
  /\ final_text' = FreshLocals.final_text
  /\ anthropic_content' = FreshLocals.anthropic_content
  /\ openai_tool_calls' = FreshLocals.openai_tool_calls
  /\ current_anthropic_tool' = FreshLocals.current_anthropic_tool
  /\ current_openai_tool' = FreshLocals.current_openai_tool
  /\ current_tool_args' = FreshLocals.current_tool_args
  /\ emitted' = <<>>
  /\ result' = NoResult
  /\ outcome' = NoOutcome
  /\ steps' = <<>>
  /\ pc' = "reading"
  /\ UNCHANGED <<format, streaming, split, status, err_body, agentVars, store, request,
                 trailing, edit>>

\* an indicator task as its coroutine leaves it when it is resumed: the
\* while condition is tested; a frame is printed and the timer set, or the
\* coroutine ends
Resumed(t) ==
  IF t.active THEN [t EXCEPT !.task = "waiting", !.frames = @ + 1]
  ELSE [t EXCEPT !.task = "done"]

\* the task can be resumed: it was spawned, or its timer runs
Resumable(t) ==
  /\ t.task \in {"spawned", "waiting"}
  /\ t.active => t.frames < MaxSpinnerFrames

\* send_request is suspended in a network operation and the io_context
\* resumes the indicator task of this iteration
ResumeIndicator ==
  /\ pc = "reading"
  /\ Resumable(spinner)
  /\ spinner' = Resumed(spinner)
  /\ UNCHANGED <<format, streaming, wire, sent, split, accumulated_body, final_text,
                 anthropic_content, openai_tool_calls, current_anthropic_tool,
                 current_openai_tool, current_tool_args, emitted, pc, result, outcome,
                 transportVars, agentVars, store, request, trailing, indicators, edit>>

\* the same for the task of an earlier iteration
ResumeEarlier ==
  /\ pc = "reading"
  /\ \E i \in 1..Len(indicators) :
       /\ Resumable(indicators[i])
       /\ indicators' = [indicators EXCEPT ![i] = Resumed(indicators[i])]
  /\ UNCHANGED <<format, streaming, wire, sent, split, accumulated_body, final_text,
                 anthropic_content, openai_tool_calls, current_anthropic_tool,
                 current_openai_tool, current_tool_args, emitted, pc, result, outcome,
                 transportVars, agentVars, store, request, spinner, trailing, edit>>

NextIndicator ==
  \/ Spawn \/ ReadSome \/ StreamEnd \/ TransportFail \/ Handle
  \/ ResumeIndicator \/ ResumeEarlier

SpecIndicator == InitIndicator /\ [][NextIndicator]_vars

\* all indicator tasks there are, the one of this iteration last
Tasks == IF spinner.task = "none" THEN indicators ELSE Append(indicators, spinner)

\* the tasks whose flag is set
Flagged(tasks) == {i \in 1..Len(tasks) : tasks[i].active}

\* the task was resumed with its flag cleared, and became next
EndsQuietly(t, next) ==
  (t.task \in {"spawned", "waiting"} /\ ~t.active /\ next # t) =>
    (next.task = "done" /\ next.frames = t.frames /\ ~next.active)

\* C34: when send_request has returned and the iteration has gone on, on
\* whatever path (text streamed, a response of tool calls only, a failure),
\* the flag of the iteration is false; a task resumed with its flag false
\* ends without printing a frame; and at most one task has its flag set at
\* any time, the tasks of earlier iterations that have not ended included.
C34_IndicatorLifetime ==
  [][/\ pc' = "handled" => ~spinner'.active
     /\ Cardinality(Flagged(Tasks')) <= 1
     /\ \A i \in 1..Len(indicators') : ~indicators'[i].active
     /\ ResumeIndicator => EndsQuietly(spinner, spinner')
     /\ ResumeEarlier => \A i \in 1..Len(indicators) : EndsQuietly(indicators[i], indicators'[i])]_vars

\* the task of the first iteration has not been resumed since its flag was
\* cleared; the second iteration has its own task, which prints
C34_Witness ==
  /\ pc = "reading"
  /\ Len(indicators) = 1
  /\ indicators[1] = [active |-> FALSE, task |-> "waiting", frames |-> 1]
  /\ spinner = [active |-> TRUE, task |-> "waiting", frames |-> 1]

\* the three paths of an iteration, each ended with the flag cleared, and an
\* earlier task ended at its resumption
C34_PathsCovered ==
  /\ pc = "handled" /\ ~spinner.active
  /\ Len(indicators) = 1 /\ indicators[1].task = "done"
  /\ outcome.kind \in {"error", "appended"}

-----------------------------------------------------------------------------
(* tools::execute_edit *)

\* longest content of the file that is edited
MaxFileLen == 3
\* size_t arithmetic is modulo 2^64; the count of execute_edit wraps at this
\* modulus, which no count of a loop that ends reaches
SizeModulus == 8

\* std::string::npos
npos == -1

\* get_string(args, key, default_val)
get_string(args, key, default_val) ==
  IF contains(args, key) /\ is_string(at(args, key)) THEN at(args, key).str ELSE default_val

\* get_bool(args, key, default_val)
get_bool(args, key, default_val) ==
  IF contains(args, key) /\ is_bool(at(args, key)) THEN at(args, key).bool ELSE default_val

\* what is at offset i of text (offsets count from 0)
OccursAt(text, what, i) ==
  i + Len(what) <= Len(text) /\ SubSeq(text, i + 1, i + Len(what)) = what

\* text.find(what, pos)
find(text, what, pos) ==
  IF \E i \in pos..Len(text) : OccursAt(text, what, i)
  THEN CHOOSE i \in pos..Len(text) :
         OccursAt(text, what, i) /\ \A k \in pos..(i - 1) : ~OccursAt(text, what, k)
  ELSE npos

\* text.replace(pos, n, with)
replace(text, pos, n, with) ==
  SubSeq(text, 1, pos) \o with \o SubSeq(text, pos + n + 1, Len(text))

\* the argument objects a tool_use block hands to execute_edit
EditArgs ==
  {Obj(path \o old \o new \o all) :
     path \in {<<>>, <<Member("path", S("f"))>>},
     old \in {<<>>, <<Member("old", Num("1"))>>} \cup
             {<<Member("old", Str(t))>> : t \in {<<>>, <<"a">>, <<"a", "a">>, <<"a", "b">>}},
     new \in {<<>>} \cup {<<Member("new", Str(t))>> : t \in {<<"b">>, <<"a", "a">>}},
     all \in {<<>>, <<Member("all", S("true"))>>} \cup
             {<<Member("all", Bool(b))>> : b \in BOOLEAN}}

\* the file named f: absent, or with a content, writable or not
EditFiles ==
  {[exists |-> FALSE]} \cup
  {[exists |-> TRUE, content |-> t, writable |-> w] :
     t \in Texts({"a", "b"}, MaxFileLen), w \in BOOLEAN}

\* what std::ifstream in(path) opens
Opens(path, file) == path = <<"f">> /\ file.exists

\* return "ok"
Ok == [ok |-> TRUE, value |-> <<"ok">>]

\* everything but the call of execute_edit
editFrame == <<format, streaming, wire, sent, split, accumulated_body, final_text,
               anthropic_content, openai_tool_calls, current_anthropic_tool,
               current_openai_tool, current_tool_args, emitted, pc, result, outcome,
               transportVars, agentVars, store, request, spinner, trailing, indicators>>

\* execute_edit is called: the arguments are read
InitEdit ==
  /\ format = "anthropic"
  /\ Connected
  /\ OneRequest
  /\ streaming = TRUE
  /\ sent = <<>>
  /\ wire = <<>>
  /\ split = FALSE
  /\ pc = "handled"
  /\ InitLocals
  /\ store = NoStore /\ request = NoRequest /\ spinner = NoSpinner /\ trailing = <<>>
  /\ indicators = <<>>
  /\ \E args \in EditArgs, file \in EditFiles :
       edit = [pc |-> "open", args |-> args,
               path |-> get_string(args, "path", <<>>),
               old_str |-> get_string(args, "old", <<>>),
               new_str |-> get_string(args, "new", <<>>),
               replace_all |-> get_bool(args, "all", FALSE),
               before |-> file, file |-> file,
               text |-> <<>>, count |-> 0, pos |-> 0, ret |-> NoResult]

\* std::ifstream in(path); the whole file is read into text
Open ==
  /\ edit.pc = "open"
  /\ edit' = IF Opens(edit.path, edit.file)
             THEN [edit EXCEPT !.pc = "count", !.text = edit.file.content]
             ELSE [edit EXCEPT !.pc = "returned",
                               !.ret = Unexpected(<<"error: could not open ">> \o edit.path)]
  /\ UNCHANGED editFrame

\* a pass of the loop that counts the occurrences
CountPass ==
  /\ edit.pc = "count"
  /\ edit' = IF find(edit.text, edit.old_str, edit.pos) = npos
             THEN [edit EXCEPT !.pc = "check"]
             ELSE [edit EXCEPT !.count = (@ + 1) % SizeModulus,
                               !.pos = find(edit.text, edit.old_str, edit.pos)
                                         + Len(edit.old_str)]
  /\ UNCHANGED editFrame

\* the two checks of count; without all=true the first occurrence is replaced
Check ==
  /\ edit.pc = "check"
  /\ edit' =
       IF edit.count = 0
       THEN [edit EXCEPT !.pc = "returned", !.ret = Unexpected(<<"error: old_string not found">>)]
       ELSE IF edit.count > 1 /\ ~edit.replace_all
       THEN [edit EXCEPT !.pc = "returned",
                         !.ret = Unexpected(<<"error: old_string appears ", ToString(edit.count),
                                              " times, must be unique (use all=true)">>)]
       ELSE IF edit.replace_all
       THEN [edit EXCEPT !.pc = "replace", !.pos = 0]
       ELSE [edit EXCEPT !.pc = "write",
                         !.pos = find(edit.text, edit.old_str, 0),
                         !.text = IF find(edit.text, edit.old_str, 0) = npos THEN @
                                  ELSE replace(@, find(edit.text, edit.old_str, 0),
                                               Len(edit.old_str), edit.new_str)]
  /\ UNCHANGED editFrame

\* a pass of the loop that replaces every occurrence
ReplacePass ==
  /\ edit.pc = "replace"
  /\ edit' = IF find(edit.text, edit.old_str, edit.pos) = npos
             THEN [edit EXCEPT !.pc = "write", !.pos = npos]
             ELSE [edit EXCEPT !.text = replace(@, find(edit.text, edit.old_str, edit.pos),
                                                Len(edit.old_str), edit.new_str),
                               !.pos = find(edit.text, edit.old_str, edit.pos)
                                         + Len(edit.new_str)]
  /\ UNCHANGED editFrame

\* std::ofstream out(path); out << text; return "ok"
WriteBack ==
  /\ edit.pc = "write"
  /\ edit' = IF edit.file.writable
             THEN [edit EXCEPT !.pc = "returned", !.ret = Ok,
                               !.file = [@ EXCEPT !.content = edit.text]]
             ELSE [edit EXCEPT !.pc = "returned",
                               !.ret = Unexpected(<<"error: could not open ">> \o edit.path
                                                  \o <<" for writing">>)]
  /\ UNCHANGED editFrame

NextEdit == Open \/ CountPass \/ Check \/ ReplacePass \/ WriteBack

\* the thread that runs execute_edit goes on as long as it has a statement
\* to execute
SpecEdit == InitEdit /\ [][NextEdit]_vars /\ WF_vars(NextEdit)

\* execute_edit has returned
EditReturned == edit.pc = "returned"

\* the file was opened for reading
EditOpened == Opens(edit.path, edit.before)

\* the offsets at which what occurs in text
Offsets(text, what) == {i \in 0..Len(text) : OccursAt(text, what, i)}

RECURSIVE Disjoint(_, _, _)
\* the occurrences of a non-empty what in text from pos on, counted from the
\* left without overlap
Disjoint(text, what, pos) ==
  IF find(text, what, pos) = npos THEN 0
  ELSE 1 + Disjoint(text, what, find(text, what, pos) + Len(what))

\* C35, termination: execute_edit returns for every argument object and
\* every file content, a missing or empty `old` argument included.
C35_EditTerminates == <>EditReturned

\* with an `old` argument that is a non-empty string, or a file that cannot
\* be opened, execute_edit returns
C35_NonEmptyOldTerminates ==
  (edit.old_str # <<>> \/ ~EditOpened) ~> EditReturned

\* what execute_edit returns is "ok" or an error, and an error leaves the
\* file as it was; when `old` does not occur, or is counted more than once
\* from the left without overlap and all is not true, an error is returned
C35_ErrorLeavesFile ==
  EditReturned =>
    /\ edit.ret = Ok \/ (~edit.ret.ok /\ edit.file = edit.before)
    /\ (/\ EditOpened
        /\ \/ Disjoint(edit.before.content, edit.old_str, 0) = 0
           \/ Disjoint(edit.before.content, edit.old_str, 0) > 1 /\ ~edit.replace_all)
         => ~edit.ret.ok

\* C35, uniqueness: when `old` occurs at more than one offset and all is not
\* true, an error is returned and the file is unchanged
C35_ErrorWhenNotUnique ==
  (EditReturned /\ EditOpened /\ Cardinality(Offsets(edit.before.content, edit.old_str)) > 1
     /\ ~edit.replace_all)
    => (~edit.ret.ok /\ edit.file = edit.before)

\* the loop that counts goes round with an empty old string: the count has
\* wrapped and the position has not moved
C35_CountsForever ==
  /\ edit.pc = "count" /\ edit.old_str = <<>>
  /\ edit.pos = 0 /\ edit.count = 0
  /\ ~contains(edit.args, "old")


=============================================================================
